---- MODULE Spec2Model ----
(***************************************************************************)
(* A model of the static-analysis core of crewai_dwh:                      *)
(*   - tools/dwh/lineage_tracer.py : the dependency-graph scan and the     *)
(*     four depth- and visited-bounded walks (Part 1);                     *)
(*   - tools/dwh/sql_analyze.py    : the regex extractors and the          *)
(*     complexity score (Part 2);                                          *)
(*   - utils/sandbox.py, crew/project_crew.py : the process-wide sandbox   *)
(*     (Part 3).                                                           *)
(* Strings are Python strings; None is the string "None".                  *)
(***************************************************************************)
EXTENDS Integers, Sequences, FiniteSets, TLC

VARIABLES
    files,        \* the SQL files under the project root (unchanged by a query)
    scanned,      \* the files the rglob loop has already visited
    graph,        \* graph["models"], graph["reverse"] of _build_dependency_graph
    prev_graphs,  \* the graphs of the earlier scans of the same root
    model_name,   \* LineageInput.model_name
    depth,        \* LineageInput.depth
    pc,           \* position of LineageTracerTool._run
    stack,        \* the call stack of the walk in progress
    visited,      \* the visited set shared by one walk
    out,          \* upstream, downstream and the two trees' lines
    expanded,     \* how often each model passed the guard in the current walk
    sql_parts,    \* the pieces the SQL text under analysis is written from
    sql_content,  \* SQLAnalyzeInput.sql_content
    analysis,     \* <<>> before analyze_sql has run, then <<its output>>
    sandbox,      \* the module global _sandbox: <<>> for None, else <<root_path>>
    crews,        \* for each caller, <<>> or <<project_path of its analyzer>>
    last_call,    \* <<>> or <<the tool call answered last>>
    disk,         \* the paths the file tools have created or written
    file_call,    \* <<>> or <<the file-tool call made last>>
    model_file,   \* the pieces a dbt model and its companion documents are written from
    dbt_record    \* <<>> before parse_dbt_model has run, then <<its outcome>>

lineage_vars == <<files, scanned, graph, prev_graphs, model_name, depth, pc,
                  stack, visited, out, expanded>>

sql_vars == <<sql_parts, sql_content, analysis>>

sandbox_vars == <<sandbox, crews, last_call>>

file_vars == <<disk, file_call>>

dbt_vars == <<model_file, dbt_record>>

vars == <<lineage_vars, sql_vars, sandbox_vars, file_vars, dbt_vars>>

None == "None"

\* ---- a part whose tool is not in use
NoSql == [ctes |-> <<>>, outer |-> ""]

IdleSql ==
    /\ sql_parts = NoSql
    /\ sql_content = ""
    /\ analysis = <<>>

IdleFiles ==
    /\ disk = {}
    /\ file_call = <<>>

NoModelFile == [config |-> <<>>, documents |-> <<>>]

IdleDbt ==
    /\ model_file = NoModelFile
    /\ dbt_record = <<>>

\* the sessions of the application, each of which builds its own analyzer
Callers == {"c1", "c2"}

\* _sandbox: SandboxValidator | None = None, and no analyzer built yet
IdleSandbox ==
    /\ sandbox = <<>>
    /\ crews = [c \in Callers |-> <<>>]
    /\ last_call = <<>>

(***************************************************************************)
(* Part 1. tools/dwh/lineage_tracer.py                                     *)
(***************************************************************************)

\* ---- bounds of the enumerated inputs
MaxRefs == 2
MaxDepth == 2

\* ---- sequences and dicts
Range(s) == {s[i] : i \in 1..Len(s)}

NoDup(s) == \A i, j \in 1..Len(s) : s[i] = s[j] => i = j

Perms(S) == {p \in [1..Cardinality(S) -> S] : Range(p) = S}

Get(f, k, default) == IF k \in DOMAIN f THEN f[k] ELSE default

Put(f, k, v) == [x \in DOMAIN f \cup {k} |-> IF x = k THEN v ELSE f[x]]

\* ---- the project tree: a file is its directory (path parts below the
\* root), its stem, and the ref() and source() calls of its content in
\* textual order (what the two re.findall calls return)
SqlFile(dir, stem, refs, sources) ==
    [dir |-> dir, stem |-> stem, refs |-> refs, sources |-> sources]

\* the directory the sandbox root is when a project names no other
ProjectRoot == <<"srv", "dwh">>

\* root_path, the start of the rglob
RootOf(f) == IF "root" \in DOMAIN f THEN f.root ELSE ProjectRoot

\* sql_file.parts: the segments of the absolute path, those of the root
\* included
Parts(f) == Range(RootOf(f)) \cup Range(f.dir) \cup {f.stem \o ".sql"}

\* a name that matches *.sql and cannot be opened for reading (a directory,
\* a dangling link, a file without read permission): read_text raises
Unreadable(dir, stem) ==
    [dir |-> dir, stem |-> stem, refs |-> <<>>, sources |-> <<>>, unreadable |-> TRUE]

can_read(f) == "unreadable" \notin DOMAIN f

RelPath(f) == f.dir \o <<f.stem \o ".sql">>

ExcludedParts == {"target", "dbt_packages", "logs"}

\* keys is the order of the keys of graph["models"]: a dict keeps its keys in
\* the order of their first insertion
EmptyGraph == [models |-> <<>>, reverse |-> <<>>, keys |-> <<>>]

\* graph["reverse"][ref].append(model_name) for every ref of the file, in
\* textual order and with its repetitions (the loop runs over refs, not
\* over set(refs))
RECURSIVE build_reverse(_, _, _)
build_reverse(reverse, refs, stem) ==
    IF refs = <<>> THEN reverse
    ELSE build_reverse(
             Put(reverse, Head(refs), Append(Get(reverse, Head(refs), <<>>), stem)),
             Tail(refs), stem)

\* one iteration of the rglob loop on file f; ref_list and source_list are
\* list(set(refs)) and list(set(sources)), whose order Python does not fix
Excluded(f) == Parts(f) \cap ExcludedParts # {}

scan_file(g, f, ref_list, source_list) ==
    IF Excluded(f)
    THEN g
    ELSE [models  |-> Put(g.models, f.stem,
                          [refs |-> ref_list, sources |-> source_list,
                           path |-> RelPath(f)]),
          reverse |-> build_reverse(g.reverse, f.refs, f.stem),
          keys    |-> IF f.stem \in DOMAIN g.models THEN g.keys ELSE Append(g.keys, f.stem)]

\* ---- the four walks.  A frame is one activation: its model, its remaining
\* depth, the index i of the loop (0: the guard is not evaluated yet) and,
\* for the renderers, its prefix.
Frame(m, d, prefix) == [model |-> m, depth |-> d, i |-> 0, prefix |-> prefix]

PathOf(g, m) == IF m \in DOMAIN g.models THEN g.models[m].path ELSE None

LineageNode(name, node_type, path) ==
    [name |-> name, node_type |-> node_type, path |-> path]

\* the guard of each function: `if depth <= 0 or model_name in visited`
\* (first a variant that lets depth 0 through, for C4)
trace_upstream_guard_off_by_one(m, d, v) == d < 0 \/ m \in v

trace_upstream_guard(m, d, v) == d <= 0 \/ m \in v

\* (a variant without the visited test, for C3)
trace_downstream_guard_depth_only(m, d, v) == d <= 0

trace_downstream_guard(m, d, v) == d <= 0 \/ m \in v

format_upstream_guard(m, d, v) == d <= 0 \/ m \in v

format_downstream_guard(m, d, v) == d <= 0 \/ m \in v

Guard(mode, m, d, v) ==
    CASE mode = "up"       -> trace_upstream_guard(m, d, v)
      [] mode = "down"     -> trace_downstream_guard(m, d, v)
      [] mode = "fmt_up"   -> format_upstream_guard(m, d, v)
      [] mode = "fmt_down" -> format_downstream_guard(m, d, v)

\* what each function iterates over, in order: the entry it appends for a
\* child and whether it recurses into it
Child(name, node_type, path, recurse) ==
    [name |-> name, node_type |-> node_type, path |-> path, recurse |-> recurse]

trace_upstream_children(g, m) ==
    IF m \notin DOMAIN g.models THEN <<>>
    ELSE LET info == g.models[m]
         IN  [i \in 1..Len(info.refs) |->
                 Child(info.refs[i], "model", PathOf(g, info.refs[i]), TRUE)]
             \o [i \in 1..Len(info.sources) |->
                 Child(info.sources[i], "source", None, FALSE)]

trace_downstream_children(g, m) ==
    LET deps == Get(g.reverse, m, <<>>)
    IN  [i \in 1..Len(deps) |-> Child(deps[i], "model", PathOf(g, deps[i]), TRUE)]

format_upstream_children(g, m) ==
    IF m \notin DOMAIN g.models THEN <<>>
    ELSE LET info == g.models[m]
             deps == info.refs \o info.sources
         IN  [i \in 1..Len(deps) |->
                 IF deps[i] \in Range(info.sources)
                 THEN Child(deps[i], "source", None, FALSE)
                 ELSE Child(deps[i], "model", None, TRUE)]

format_downstream_children(g, m) ==
    LET deps == Get(g.reverse, m, <<>>)
    IN  [i \in 1..Len(deps) |-> Child(deps[i], "model", None, TRUE)]

Children(mode, g, m) ==
    CASE mode = "up"       -> trace_upstream_children(g, m)
      [] mode = "down"     -> trace_downstream_children(g, m)
      [] mode = "fmt_up"   -> format_upstream_children(g, m)
      [] mode = "fmt_down" -> format_downstream_children(g, m)

WalkModes == {"up", "down", "fmt_up", "fmt_down"}

\* the entry a walk appends for child c, the last one of its parent or not
Entry(mode, c, prefix, is_last) ==
    IF mode \in {"up", "down"}
    THEN LineageNode(c.name, c.node_type, c.path)
    ELSE [prefix |-> prefix, connector |-> IF is_last THEN "last" ELSE "mid",
          node_type |-> c.node_type, name |-> c.name]

\* "not_found" holds the answer of a lookup that failed
NoOutput == [m \in WalkModes \cup {"not_found"} |-> <<>>]

NoExpansion == <<>>

\* ---- the enumerated projects
Stems == {"A", "B"}

RefLists == UNION {[1..n -> Stems] : n \in 0..MaxRefs}

ModelsDir == <<"models">>

\* every project of two models whose files hold up to MaxRefs ref() calls
FamilyProjects ==
    {{SqlFile(ModelsDir, s, r[s], <<>>) : s \in Stems} : r \in [Stems -> RefLists]}

CycleProject ==
    {SqlFile(ModelsDir, "A", <<"B">>, <<>>), SqlFile(ModelsDir, "B", <<"C">>, <<>>),
     SqlFile(ModelsDir, "C", <<"A">>, <<>>)}

ChainProject ==
    {SqlFile(ModelsDir, "A", <<"B">>, <<>>), SqlFile(ModelsDir, "B", <<"C">>, <<>>),
     SqlFile(ModelsDir, "C", <<"D">>, <<>>), SqlFile(ModelsDir, "D", <<"E">>, <<>>),
     SqlFile(ModelsDir, "E", <<>>, <<>>)}

DiamondProject ==
    {SqlFile(ModelsDir, "A", <<"B", "C">>, <<>>), SqlFile(ModelsDir, "B", <<"D">>, <<>>),
     SqlFile(ModelsDir, "C", <<"D">>, <<>>), SqlFile(ModelsDir, "D", <<>>, <<"raw.orders">>)}

SharedSourceProject ==
    {SqlFile(ModelsDir, "A", <<"B">>, <<"raw.orders">>),
     SqlFile(ModelsDir, "B", <<"Z">>, <<"raw.orders", "raw.users">>)}

SameStemProject ==
    {SqlFile(<<"models", "staging">>, "A", <<"B">>, <<>>),
     SqlFile(<<"models", "marts">>, "A", <<>>, <<>>),
     SqlFile(<<"models", "staging">>, "B", <<>>, <<>>)}

TargetDirProject ==
    {SqlFile(ModelsDir, "A", <<"B">>, <<>>), SqlFile(ModelsDir, "B", <<>>, <<>>),
     SqlFile(<<"target", "compiled">>, "B", <<"A">>, <<>>)}

\* a project checked out below a directory named target
TargetRootProject ==
    {[dir |-> ModelsDir, stem |-> "A", refs |-> <<"B">>, sources |-> <<>>,
      root |-> <<"srv", "target", "dwh">>],
     [dir |-> ModelsDir, stem |-> "B", refs |-> <<>>, sources |-> <<>>,
      root |-> <<"srv", "target", "dwh">>]}

\* a model that refers to the model raw.orders (file raw.orders.sql) and to
\* the table orders of the source raw, which the scan names raw.orders
DottedProject ==
    {SqlFile(ModelsDir, "A", <<"raw.orders">>, <<"raw.orders">>),
     SqlFile(ModelsDir, "raw.orders", <<"C">>, <<>>), SqlFile(ModelsDir, "C", <<>>, <<>>)}

ScenarioProjects ==
    {CycleProject, ChainProject, DiamondProject, SharedSourceProject,
     SameStemProject, TargetDirProject, TargetRootProject, DottedProject}

\* a model that reaches C directly and through B, above a chain C, D, E
ShortcutProject ==
    {SqlFile(ModelsDir, "A", <<"B", "C">>, <<>>), SqlFile(ModelsDir, "B", <<"C">>, <<>>),
     SqlFile(ModelsDir, "C", <<"D">>, <<>>), SqlFile(ModelsDir, "D", <<"E">>, <<>>),
     SqlFile(ModelsDir, "E", <<>>, <<>>)}

\* the projects queried with the depth the caller gets when giving none
DefaultDepthProjects == {ShortcutProject}

\* projects with a name that cannot be read, among the models and in a
\* directory the scan leaves out
UnreadableProject ==
    {SqlFile(ModelsDir, "A", <<"B">>, <<>>), SqlFile(ModelsDir, "B", <<"C">>, <<>>),
     SqlFile(ModelsDir, "C", <<>>, <<>>), Unreadable(ModelsDir, "D")}

UnreadableTargetProject ==
    {SqlFile(ModelsDir, "A", <<"B">>, <<>>), SqlFile(ModelsDir, "B", <<"C">>, <<>>),
     SqlFile(ModelsDir, "C", <<>>, <<>>), Unreadable(<<"target">>, "D")}

UnreadableProjects == {UnreadableProject, UnreadableTargetProject}

Projects == FamilyProjects \cup ScenarioProjects

\* projects for the lookup of a name that is no model: six models whose
\* names hold the letter a in either case, and one of two that does
SuggestionProject ==
    {SqlFile(ModelsDir, s, <<>>, <<>>) : s \in {"a1", "A2", "a3", "A4", "a5", "A6"}}

PartialProject ==
    {SqlFile(ModelsDir, "stg_a", <<"B">>, <<>>), SqlFile(ModelsDir, "B", <<>>, <<>>)}

LookupProjects == {SuggestionProject, PartialProject}

\* LineageInput.depth when the caller gives none
DefaultDepth == 3

QueryNames == {"A", "C"}

CycleDepth == 10

Depths == (-1..MaxDepth) \cup {CycleDepth}

\* ---- str.lower(), character by character
Char(s, i) == SubSeq(s, i, i)

Chars(s) == {Char(s, i) : i \in 1..Len(s)}

Uppers == "ABCDEFGHIJKLMNOPQRSTUVWXYZ"

Lowers == "abcdefghijklmnopqrstuvwxyz"

Digits == "0123456789"

LowerOf == [k \in 1..Len(Uppers) |-> Char(Lowers, k)]

LowerChar(ch) ==
    LET k == {i \in 1..Len(Uppers) : Char(Uppers, i) = ch}
    IN  IF k = {} THEN ch ELSE LowerOf[CHOOSE i \in k : TRUE]

RECURSIVE LowerStr(_)
LowerStr(s) ==
    IF Len(s) <= 1 THEN LowerChar(s)
    ELSE LowerStr(SubSeq(s, 1, Len(s) \div 2)) \o LowerStr(SubSeq(s, Len(s) \div 2 + 1, Len(s)))

\* ---- LineageTracerTool._run, one query
InitLineage ==
    /\ files \in Projects \cup LookupProjects \cup DefaultDepthProjects
    /\ scanned = {}
    /\ graph = EmptyGraph
    /\ prev_graphs = <<>>
    /\ model_name \in QueryNames
    /\ depth \in (IF files \in LookupProjects \cup DefaultDepthProjects
                  THEN {DefaultDepth} ELSE Depths)
    /\ pc = "scan"
    /\ stack = <<>>
    /\ visited = {}
    /\ out = NoOutput
    /\ expanded = NoExpansion
    /\ IdleSql
    /\ IdleSandbox
    /\ IdleFiles
    /\ IdleDbt

\* the body of `for sql_file in root_path.rglob("*.sql")`, on the next file
\* in whatever order the file system enumerates them
\* (read_text stands in no try block of its own: what it raises leaves the
\* loop and the function and is caught at the end of _run, which returns
\* "Error tracing lineage: ...")
ScanFile ==
    /\ pc = "scan"
    /\ \E f \in files \ scanned :
         IF ~Excluded(f) /\ ~can_read(f)
         THEN /\ pc' = "error"
              /\ UNCHANGED <<graph, scanned>>
         ELSE \E ref_list \in Perms(Range(f.refs)), source_list \in Perms(Range(f.sources)) :
                 /\ graph' = scan_file(graph, f, ref_list, source_list)
                 /\ scanned' = scanned \cup {f}
                 /\ UNCHANGED pc
    /\ UNCHANGED <<files, prev_graphs, model_name, depth, stack, visited, out, expanded>>
    /\ UNCHANGED <<sql_vars, sandbox_vars, file_vars, dbt_vars>>

StartWalk(mode) ==
    /\ pc' = mode
    /\ stack' = <<Frame(model_name, depth, <<>>)>>
    /\ visited' = {}
    /\ expanded' = NoExpansion

\* needle in haystack, for two strings
Contains(haystack, needle) ==
    \E i \in 1..(Len(haystack) - Len(needle) + 1) :
        SubSeq(haystack, i, i + Len(needle) - 1) = needle

\* [m for m in graph["models"] if model_name.lower() in m.lower()]
RECURSIVE name_matches(_, _)
name_matches(keys, name) ==
    IF keys = <<>> THEN <<>>
    ELSE (IF Contains(LowerStr(Head(keys)), LowerStr(name)) THEN <<Head(keys)>> ELSE <<>>)
         \o name_matches(Tail(keys), name)

\* a variant that lists every match
all_matches(found) == found

\* matches[:5]
first_five(found) == SubSeq(found, 1, IF Len(found) < 5 THEN Len(found) ELSE 5)

\* the two answers of a failed lookup: "Model '<name>' not found. Did you
\* mean: <suggestions>?" and "Model '<name>' not found in project"
NotFound(g, name) ==
    IF name_matches(g.keys, name) # <<>>
    THEN [message |-> "not found. Did you mean:",
          suggestions |-> first_five(name_matches(g.keys, name))]
    ELSE [message |-> "not found in project", suggestions |-> <<>>]

\* `if model_name not in graph["models"]: return ...`, else the first walk
Lookup ==
    /\ pc = "scan"
    /\ scanned = files
    /\ IF model_name \notin DOMAIN graph.models
       THEN /\ pc' = "not_found"
            /\ out' = [out EXCEPT !["not_found"] = <<NotFound(graph, model_name)>>]
            /\ UNCHANGED <<stack, visited, expanded>>
       ELSE /\ StartWalk("up")
            /\ UNCHANGED out
    /\ UNCHANGED <<files, scanned, graph, prev_graphs, model_name, depth>>
    /\ UNCHANGED <<sql_vars, sandbox_vars, file_vars, dbt_vars>>

Top == stack[Len(stack)]

Pop == SubSeq(stack, 1, Len(stack) - 1)

\* a call evaluates its guard: it returns at once, or marks its model visited
Enter ==
    /\ pc \in WalkModes
    /\ stack # <<>>
    /\ Top.i = 0
    /\ IF Guard(pc, Top.model, Top.depth, visited)
       THEN /\ stack' = Pop
            /\ UNCHANGED <<visited, expanded>>
       ELSE /\ stack' = [stack EXCEPT ![Len(stack)].i = 1]
            /\ visited' = visited \cup {Top.model}
            /\ expanded' = Put(expanded, Top.model, Get(expanded, Top.model, 0) + 1)
    /\ UNCHANGED <<files, scanned, graph, prev_graphs, model_name, depth, pc, out>>
    /\ UNCHANGED <<sql_vars, sandbox_vars, file_vars, dbt_vars>>

\* one iteration of the loop over the children: the entry is appended, then
\* the recursive call (if any) is made with depth - 1
Visit ==
    /\ pc \in WalkModes
    /\ stack # <<>>
    /\ Top.i >= 1
    /\ LET kids == Children(pc, graph, Top.model)
       IN  /\ Top.i <= Len(kids)
           /\ LET c == kids[Top.i]
                  is_last == Top.i = Len(kids)
                  new_prefix == Append(Top.prefix, IF is_last THEN "blank" ELSE "bar")
                  next == [stack EXCEPT ![Len(stack)].i = Top.i + 1]
              IN  /\ out' = [out EXCEPT ![pc] = Append(@, Entry(pc, c, Top.prefix, is_last))]
                  /\ stack' = IF c.recurse
                              THEN Append(next, Frame(c.name, Top.depth - 1, new_prefix))
                              ELSE next
    /\ UNCHANGED <<files, scanned, graph, prev_graphs, model_name, depth, pc, visited, expanded>>
    /\ UNCHANGED <<sql_vars, sandbox_vars, file_vars, dbt_vars>>

\* the loop is over: the call returns
Return ==
    /\ pc \in WalkModes
    /\ stack # <<>>
    /\ Top.i > Len(Children(pc, graph, Top.model))
    /\ stack' = Pop
    /\ UNCHANGED <<files, scanned, graph, prev_graphs, model_name, depth, pc, visited, out, expanded>>
    /\ UNCHANGED <<sql_vars, sandbox_vars, file_vars, dbt_vars>>

\* _run after a walk has returned: downstream follows upstream, and a tree
\* is rendered only `if upstream:` / `if downstream:`
AfterWalk(mode) ==
    CASE mode = "up" -> "down"
      [] mode = "down" -> IF out["up"] # <<>> THEN "fmt_up"
                          ELSE IF out["down"] # <<>> THEN "fmt_down" ELSE "done"
      [] mode = "fmt_up" -> IF out["down"] # <<>> THEN "fmt_down" ELSE "done"
      [] mode = "fmt_down" -> "done"

Advance ==
    /\ pc \in WalkModes
    /\ stack = <<>>
    /\ IF AfterWalk(pc) = "done"
       THEN /\ pc' = "done"
            /\ UNCHANGED <<stack, visited, expanded>>
       ELSE StartWalk(AfterWalk(pc))
    /\ UNCHANGED <<files, scanned, graph, prev_graphs, model_name, depth, out>>
    /\ UNCHANGED <<sql_vars, sandbox_vars, file_vars, dbt_vars>>

NextLineage == ScanFile \/ Lookup \/ Enter \/ Visit \/ Return \/ Advance

Spec == InitLineage /\ [][NextLineage]_vars

\* the same query under the scheduling of a sequential program: a step that
\* can be taken is taken
SpecTerm == InitLineage /\ [][NextLineage]_vars /\ WF_vars(NextLineage)

\* ---- the two list walks as functions of the graph: the list a call
\* returns and the visited set it leaves behind, which is the one set all
\* calls of a walk share
RECURSIVE trace(_, _, _, _, _)
RECURSIVE trace_loop(_, _, _, _, _, _)
trace(mode, g, m, d, v) ==
    IF Guard(mode, m, d, v) THEN [list |-> <<>>, visited |-> v]
    ELSE trace_loop(mode, g, Children(mode, g, m), d, v \cup {m}, <<>>)

trace_loop(mode, g, kids, d, v, list) ==
    IF kids = <<>> THEN [list |-> list, visited |-> v]
    ELSE LET c == Head(kids)
             below == IF c.recurse THEN trace(mode, g, c.name, d - 1, v)
                      ELSE [list |-> <<>>, visited |-> v]
         IN  trace_loop(mode, g, Tail(kids), d, below.visited,
                        list \o <<LineageNode(c.name, c.node_type, c.path)>> \o below.list)

trace_upstream(g, m, d) == trace("up", g, m, d, {}).list

trace_downstream(g, m, d) == trace("down", g, m, d, {}).list

\* every graph a scan can make of g and the files fs, over the orders of
\* enumeration and the orders of list(set(refs)) and list(set(sources))
RECURSIVE Scans(_, _)
Scans(g, fs) ==
    IF fs = {} THEN {g}
    ELSE UNION {UNION {Scans(scan_file(g, f, r, l), fs \ {f}) :
                         r \in Perms(Range(f.refs)), l \in Perms(Range(f.sources))} :
                f \in fs}

\* ---- a query on a project that holds a name that cannot be read
InitUnreadable ==
    /\ files \in UnreadableProjects
    /\ scanned = {}
    /\ graph = EmptyGraph
    /\ prev_graphs = <<>>
    /\ model_name \in QueryNames
    /\ depth \in Depths
    /\ pc = "scan"
    /\ stack = <<>>
    /\ visited = {}
    /\ out = NoOutput
    /\ expanded = NoExpansion
    /\ IdleSql
    /\ IdleSandbox
    /\ IdleFiles
    /\ IdleDbt

SpecUnreadable == InitUnreadable /\ [][NextLineage]_vars

\* ---- two scans of one unchanged root
Rescan ==
    /\ pc = "scan"
    /\ scanned = files
    /\ prev_graphs = <<>>
    /\ prev_graphs' = <<graph>>
    /\ graph' = EmptyGraph
    /\ scanned' = {}
    /\ UNCHANGED <<files, model_name, depth, pc, stack, visited, out, expanded>>
    /\ UNCHANGED <<sql_vars, sandbox_vars, file_vars, dbt_vars>>

NextScan == ScanFile \/ Rescan

SpecScan == InitLineage /\ [][NextScan]_vars

\* no lineage query in progress
IdleLineage ==
    /\ files = {}
    /\ scanned = {}
    /\ graph = EmptyGraph
    /\ prev_graphs = <<>>
    /\ model_name = None
    /\ depth = 0
    /\ pc = "idle"
    /\ stack = <<>>
    /\ visited = {}
    /\ out = NoOutput
    /\ expanded = NoExpansion

(***************************************************************************)
(* Part 2. tools/dwh/sql_analyze.py                                        *)
(*                                                                         *)
(* The extractors are regular expressions applied by Python's re module.   *)
(* A pattern is a term (Lit, Chr, Cat, Alt, Star, Opt, Grp, Look, Eos, Wb) *)
(* written after its source text, and Match is re's backtracking matcher:  *)
(* it yields every way the pattern matches at a position, in the order re  *)
(* tries them, so the first one is the match re reports.  Every pattern of *)
(* the file that holds a letter is compiled with re.IGNORECASE; letters    *)
(* are compared in lower case.                                             *)
(***************************************************************************)
\* a text under re.IGNORECASE: letters are compared in lower case, groups
\* are cut out of the text as written
Text(s) == [raw |-> s, low |-> LowerStr(s)]

\* \w and \s
WordChars == Chars(Lowers) \cup Chars(Digits) \cup {"_"}

SpaceChars == {" ", "\n", "\t", "\r"}

IsWord(t, i) == i >= 1 /\ i <= Len(t.low) /\ Char(t.low, i) \in WordChars

\* ---- pattern terms
Lit(str) == [op |-> "lit", s |-> str]

Chr(set) == [op |-> "chr", set |-> set, neg |-> FALSE]

NotChr(set) == [op |-> "chr", set |-> set, neg |-> TRUE]

Cat(rs) == [op |-> "cat", rs |-> rs]

Alt(rs) == [op |-> "alt", rs |-> rs]

Star(r) == [op |-> "star", r |-> r, greedy |-> TRUE]

LazyStar(r) == [op |-> "star", r |-> r, greedy |-> FALSE]

Plus(r) == Cat(<<r, Star(r)>>)

LazyPlus(r) == Cat(<<r, LazyStar(r)>>)

Eps == Cat(<<>>)

Opt(r) == Alt(<<r, Eps>>)

Grp(n, r) == [op |-> "grp", n |-> n, r |-> r]

Look(r) == [op |-> "look", r |-> r]

Eos == [op |-> "eos"]

Wb == [op |-> "wb"]

WordCh == Chr(WordChars)

SpaceCh == Chr(SpaceChars)

AnyChar == NotChr({})

\* ---- the matcher: the ways r matches the text t from position i, each
\* with the position after the match (e) and the groups captured so far (c)
Way(e, c) == [e |-> e, c |-> c]

\* [set] or [^set] matches the character at position j
InClass(r, t, j) == (Char(t.low, j) \in r.set) # r.neg

\* where the run of characters of a class that starts at i ends
RunEnd(r, t, i) ==
    CHOOSE j \in i..(Len(t.low) + 1) :
        /\ j = Len(t.low) + 1 \/ ~InClass(r, t, j)
        /\ \A k \in i..(j - 1) : InClass(r, t, k)

\* the sequences seqs[a], ..., seqs[b] joined
RECURSIVE Join(_, _, _)
Join(seqs, a, b) ==
    IF a > b THEN <<>>
    ELSE IF a = b THEN seqs[a]
    ELSE Join(seqs, a, (a + b) \div 2) \o Join(seqs, (a + b) \div 2 + 1, b)

\* every star of the file's patterns is over one character class: it takes
\* the longest run first when greedy, the shortest first when lazy
RECURSIVE Match(_, _, _, _), MatchCat(_, _, _, _, _), MatchCatFrom(_, _, _, _),
          MatchAlt(_, _, _, _, _)
Match(r, t, i, c) ==
    CASE r.op = "lit" ->
           IF i + Len(r.s) - 1 <= Len(t.low) /\ SubSeq(t.low, i, i + Len(r.s) - 1) = r.s
           THEN <<Way(i + Len(r.s), c)>> ELSE <<>>
      [] r.op = "chr" ->
           IF i <= Len(t.low) /\ InClass(r, t, i)
           THEN <<Way(i + 1, c)>> ELSE <<>>
      [] r.op = "cat" -> MatchCat(r.rs, 1, t, i, c)
      [] r.op = "alt" -> MatchAlt(r.rs, 1, t, i, c)
      [] r.op = "star" ->
           LET end == RunEnd(r.r, t, i)
           IN  [k \in 1..(end - i + 1) |->
                   Way(IF r.greedy THEN end - k + 1 ELSE i + k - 1, c)]
      [] r.op = "grp" ->
           LET ways == Match(r.r, t, i, c)
           IN  [k \in 1..Len(ways) |->
                   Way(ways[k].e, [ways[k].c EXCEPT ![r.n] = SubSeq(t.raw, i, ways[k].e - 1)])]
      [] r.op = "look" -> IF Match(r.r, t, i, c) # <<>> THEN <<Way(i, c)>> ELSE <<>>
      [] r.op = "eos" ->
           IF i = Len(t.low) + 1 \/ (i = Len(t.low) /\ Char(t.low, i) = "\n")
           THEN <<Way(i, c)>> ELSE <<>>
      [] r.op = "wb" ->
           IF IsWord(t, i - 1) # IsWord(t, i) THEN <<Way(i, c)>> ELSE <<>>

MatchCat(rs, k, t, i, c) ==
    IF k > Len(rs) THEN <<Way(i, c)>>
    ELSE MatchCatFrom(rs, k + 1, t, Match(rs[k], t, i, c))

\* the rest of a concatenation after each way its front matched, in order
MatchCatFrom(rs, k, t, ways) ==
    Join([j \in 1..Len(ways) |-> MatchCat(rs, k, t, ways[j].e, ways[j].c)], 1, Len(ways))

MatchAlt(rs, k, t, i, c) ==
    IF k > Len(rs) THEN <<>>
    ELSE Match(rs[k], t, i, c) \o MatchAlt(rs, k + 1, t, i, c)

\* an unmatched group is '' in what re.findall returns
NoGroups == <<"", "", "", "">>

Matches(r, t, i) == Match(r, t, i, NoGroups) # <<>>

\* re.search from position `from`: the first way at the leftmost position
\* where the pattern matches, as <<start, way>>, or <<>>
SearchFrom(r, t, from) ==
    LET last == Len(t.low) + 1
        start == CHOOSE i \in from..(last + 1) :
                     /\ i = last + 1 \/ Matches(r, t, i)
                     /\ \A j \in from..(i - 1) : ~Matches(r, t, j)
    IN  IF start > last THEN <<>> ELSE <<start, Head(Match(r, t, start, NoGroups))>>

\* re.finditer: the successive non-overlapping matches, as <<start, way>>
RECURSIVE FindIter(_, _, _)
FindIter(r, t, from) ==
    LET hit == SearchFrom(r, t, from)
    IN  IF hit = <<>> THEN <<>>
        ELSE <<hit>> \o FindIter(r, t, IF hit[2].e > hit[1] THEN hit[2].e ELSE hit[1] + 1)

\* re.findall of a pattern with groups: the groups of each match
FindAll(r, s) ==
    LET hits == FindIter(r, Text(s), 1) IN [k \in 1..Len(hits) |-> hits[k][2].c]

\* len(re.findall(pattern, s))
CountAll(r, s) == Len(FindIter(r, Text(s), 1))

\* re.sub(pattern, '', s)
RECURSIVE RemoveFrom(_, _, _)
RemoveFrom(r, t, from) ==
    LET hit == SearchFrom(r, t, from)
    IN  IF hit = <<>> THEN SubSeq(t.raw, from, Len(t.raw))
        ELSE SubSeq(t.raw, from, hit[1] - 1)
             \o (IF hit[2].e > hit[1] THEN RemoveFrom(r, t, hit[2].e)
                 ELSE IF hit[1] > Len(t.raw) THEN ""
                 ELSE Char(t.raw, hit[1]) \o RemoveFrom(r, t, hit[1] + 1))

Remove(r, s) == RemoveFrom(r, Text(s), 1)

\* str.strip(chars)
RECURSIVE Strip(_, _)
Strip(s, chars) ==
    IF s = "" THEN ""
    ELSE IF Char(s, 1) \in chars THEN Strip(SubSeq(s, 2, Len(s)), chars)
    ELSE IF Char(s, Len(s)) \in chars THEN Strip(SubSeq(s, 1, Len(s) - 1), chars)
    ELSE s

Min(a, b) == IF a <= b THEN a ELSE b

UpperChar(ch) ==
    LET k == {i \in 1..Len(Lowers) : Char(Lowers, i) = ch}
    IN  IF k = {} THEN ch ELSE Char(Uppers, CHOOSE i \in k : TRUE)

RECURSIVE UpperStr(_)
UpperStr(s) == IF s = "" THEN "" ELSE UpperChar(Char(s, 1)) \o UpperStr(SubSeq(s, 2, Len(s)))

\* ---- _extract_tables
\* the quote characters of [`"\[] and [`"\]]; the backtick, which no
\* string of this module can hold, occurs in none of the texts analysed
OpenQuotes == {"\"", "["}

CloseQuotes == {"\"", "]"}

\* [`"\[]?\w+[`"\]]?(?:\.[`"\[]?\w+[`"\]]?)?
TableName ==
    Cat(<<Opt(Chr(OpenQuotes)), Plus(WordCh), Opt(Chr(CloseQuotes)),
          Opt(Cat(<<Lit("."), Opt(Chr(OpenQuotes)), Plus(WordCh),
                    Opt(Chr(CloseQuotes))>>))>>)

\* \bFROM\s+(...), and the same after JOIN, INTO and UPDATE
TablePattern(keyword) == Cat(<<Wb, Lit(keyword), Plus(SpaceCh), Grp(1, TableName)>>)

TableKeywords == {"from", "join", "into", "update"}

QuoteChars == OpenQuotes \cup CloseQuotes

\* sorted(list(tables)) of a set is the set listed in one fixed order: the
\* set stands for it
extract_tables(sql) ==
    UNION {{Strip(m[1], QuoteChars) : m \in Range(FindAll(TablePattern(k), sql))} :
           k \in TableKeywords}

\* ---- _extract_joins
JoinStops ==
    <<Lit("left"), Lit("right"), Lit("inner"), Lit("outer"), Lit("full"), Lit("cross"),
      Lit("join"), Lit("where"), Lit("group"), Lit("order"), Lit("limit"), Eos>>

\* (LEFT|RIGHT|INNER|OUTER|FULL|CROSS)?\s*JOIN\s+(<table>)\s+(?:AS\s+)?(\w+)?\s*ON\s+
\* ([^WHERE;]+?)(?=LEFT|RIGHT|INNER|OUTER|FULL|CROSS|JOIN|WHERE|GROUP|ORDER|LIMIT|$)
JoinPattern ==
    Cat(<<Opt(Grp(1, Alt(<<Lit("left"), Lit("right"), Lit("inner"), Lit("outer"),
                           Lit("full"), Lit("cross")>>))),
          Star(SpaceCh), Lit("join"), Plus(SpaceCh), Grp(2, TableName), Plus(SpaceCh),
          Opt(Cat(<<Lit("as"), Plus(SpaceCh)>>)), Opt(Grp(3, Plus(WordCh))),
          Star(SpaceCh), Lit("on"), Plus(SpaceCh),
          Grp(4, LazyPlus(NotChr({"w", "h", "e", "r", ";"}))),
          Look(Alt(JoinStops))>>)

\* (\w+)\.\w+\s*=\s*(\w+)\.\w+
ConditionPattern ==
    Cat(<<Grp(1, Plus(WordCh)), Lit("."), Plus(WordCh), Star(SpaceCh), Lit("="),
          Star(SpaceCh), Grp(2, Plus(WordCh)), Lit("."), Plus(WordCh)>>)

Unknown == "unknown"

ConditionLimit == 100

\* a variant that takes the left side of the first pair
left_of_first_pair(cond_parts, right_table, alias) ==
    IF cond_parts = <<>> THEN Unknown ELSE cond_parts[1][1]

\* the loop over cond_parts: the first identifier, left side before right
\* side, that is neither the right table nor its alias
RECURSIVE left_table(_, _, _)
left_table(cond_parts, right_table, alias) ==
    IF cond_parts = <<>> THEN Unknown
    ELSE LET part == Head(cond_parts)
         IN  IF LowerStr(part[1]) # LowerStr(right_table) /\ LowerStr(part[1]) # LowerStr(alias)
             THEN part[1]
             ELSE IF LowerStr(part[2]) # LowerStr(right_table)
                     /\ LowerStr(part[2]) # LowerStr(alias)
             THEN part[2]
             ELSE left_table(Tail(cond_parts), right_table, alias)

JoinInfo(match) ==
    LET join_type == IF match[1] # "" THEN UpperStr(match[1]) ELSE "INNER"
        right_table == Strip(match[2], QuoteChars)
        condition == Strip(match[4], SpaceChars)
    IN  [left_table  |-> left_table(FindAll(ConditionPattern, condition), right_table, match[3]),
         right_table |-> right_table,
         join_type   |-> join_type \o " JOIN",
         condition   |-> SubSeq(condition, 1, Min(Len(condition), ConditionLimit))]

extract_joins(sql) ==
    LET matches == FindAll(JoinPattern, sql)
    IN  [k \in 1..Len(matches) |-> JoinInfo(matches[k])]

\* ---- _extract_ctes
\* WITH\s+(?:RECURSIVE\s+)?(\w+)\s+AS\s*\(
FirstCtePattern ==
    Cat(<<Lit("with"), Plus(SpaceCh), Opt(Cat(<<Lit("recursive"), Plus(SpaceCh)>>)),
          Grp(1, Plus(WordCh)), Plus(SpaceCh), Lit("as"), Star(SpaceCh), Lit("(")>>)

\* ,\s*(\w+)\s+AS\s*\(
NextCtePattern ==
    Cat(<<Lit(","), Star(SpaceCh), Grp(1, Plus(WordCh)), Plus(SpaceCh), Lit("as"),
          Star(SpaceCh), Lit("(")>>)

FirstGroups(matches) == [k \in 1..Len(matches) |-> matches[k][1]]

extract_ctes(sql) ==
    FirstGroups(FindAll(FirstCtePattern, sql)) \o FirstGroups(FindAll(NextCtePattern, sql))

\* ---- _count_subqueries
\* WITH\s+.*?(?=SELECT), with re.DOTALL
CtePreamblePattern ==
    Cat(<<Lit("with"), Plus(SpaceCh), LazyStar(AnyChar), Look(Lit("select"))>>)

\* \(\s*SELECT
SubqueryPattern == Cat(<<Lit("("), Star(SpaceCh), Lit("select")>>)

count_subqueries(sql) ==
    LET sql_no_cte == Remove(CtePreamblePattern, sql)
    IN  CountAll(SubqueryPattern, sql_no_cte)

\* ---- _calculate_complexity
UnionPattern == Cat(<<Wb, Lit("union"), Wb>>)

CaseWhenPattern == Cat(<<Wb, Lit("case"), Plus(SpaceCh), Lit("when"), Wb>>)

WindowPattern ==
    Alt(<<Cat(<<Wb, Lit("window"), Wb>>), Cat(<<Wb, Lit("over"), Star(SpaceCh), Lit("(")>>)>>)

\* re.search(pattern, sql) finds a match
Found(r, sql) == SearchFrom(r, Text(sql), 1) # <<>>

\* a variant without the cap of the joins
complexity_uncapped_joins(sql, tables, joins, ctes, subqueries) ==
    LET score == 1 + Min(Cardinality(tables) - 1, 2)
                   + Len(joins)
                   + Min(Len(ctes), 2)
                   + Min(subqueries, 2)
                   + (IF Found(UnionPattern, sql) THEN 1 ELSE 0)
                   + (IF Found(CaseWhenPattern, sql) THEN 1 ELSE 0)
                   + (IF Found(WindowPattern, sql) THEN 1 ELSE 0)
    IN  Min(score, 10)

calculate_complexity(sql, tables, joins, ctes, subqueries) ==
    LET score == 1 + Min(Cardinality(tables) - 1, 2)
                   + Min(Len(joins), 3)
                   + Min(Len(ctes), 2)
                   + Min(subqueries, 2)
                   + (IF Found(UnionPattern, sql) THEN 1 ELSE 0)
                   + (IF Found(CaseWhenPattern, sql) THEN 1 ELSE 0)
                   + (IF Found(WindowPattern, sql) THEN 1 ELSE 0)
    IN  Min(score, 10)

\* ---- the texts analysed: an optional WITH clause of one or two CTEs in
\* front of an outer statement
CteNames == <<"a", "b">>

CteBodies == {"SELECT 1", "SELECT x FROM t", "SELECT x FROM (SELECT 1) s"}

ScenarioSql ==
    "SELECT a, b FROM orders o JOIN customers c ON o.customer_id = c.id WHERE o.status = 'open'"

\* joins whose conditions name the right table, its alias and other tables
\* in either letter case, on either side, in the first pair or in a later one
JoinSqls ==
    {"SELECT * FROM a JOIN b b2 ON b2.k = B.k AND b.k = c.k",
     "SELECT * FROM a JOIN b AS x ON X.k = b.k",
     "SELECT * FROM s.a JOIN s.b ON b.k = a.k",
     "SELECT * FROM a JOIN b ON a.k = b.k JOIN c AS cc ON cc.k = c.k AND CC.j = a.j LIMIT 5",
     "SELECT * FROM a JOIN b ON a.k = b.k JOIN c ON b.k = c.k JOIN d ON c.k = d.k "
     \o "JOIN f ON d.k = f.k"}

\* every counted feature beyond its cap
ManyFeaturesSql ==
    "SELECT CASE WHEN k = 1 THEN 2 END, sum(k) OVER (PARTITION BY k) FROM a "
    \o "LEFT JOIN b ON a.k = b.k JOIN c ON b.k = c.k JOIN d ON c.k = d.k "
    \o "JOIN f ON d.k = f.k WHERE k IN (SELECT 1 UNION SELECT 2) AND k IN (SELECT 3)"

Outers ==
    {"",
     "SELECT 1",
     ScenarioSql,
     "SELECT * FROM a JOIN b ON a.x = b.x",
     "select t.id from dim_table t inner join fact_table f on f.id = t.id",
     "SELECT x FROM t UNION SELECT x FROM u",
     "SELECT CASE WHEN x = 1 THEN 2 END FROM t",
     "SELECT sum(x) OVER (PARTITION BY y) FROM t",
     "SELECT x FROM t WHERE y IN (SELECT y FROM u) AND z IN (SELECT z FROM v)",
     ManyFeaturesSql}
    \cup JoinSqls

CteLists == UNION {[1..n -> CteBodies] : n \in 0..Len(CteNames)}

SqlInputs == [ctes : CteLists, outer : Outers]

RECURSIVE RenderCtes(_, _)
RenderCtes(bodies, k) ==
    IF k > Len(bodies) THEN ""
    ELSE (IF k = 1 THEN "WITH " ELSE ", ") \o CteNames[k] \o " AS (" \o bodies[k] \o ")"
         \o RenderCtes(bodies, k + 1)

Render(parts) ==
    IF Len(parts.ctes) = 0 THEN parts.outer
    ELSE RenderCtes(parts.ctes, 1) \o " " \o parts.outer

\* ---- SQLAnalyzeTool._run.  sqlparse.parse yields no statement for the
\* empty text.  Of SQLAnalyzeOutput the fields columns and query_type are
\* left out: no other field is computed from them.
SQLAnalyzeOutput(ok, tables, joins, ctes, subqueries, complexity) ==
    [ok |-> ok, tables |-> tables, joins |-> joins, ctes |-> ctes,
     subqueries |-> subqueries, complexity_score |-> complexity]

CouldNotParse == SQLAnalyzeOutput(FALSE, {}, <<>>, <<>>, 0, 0)

analyze_sql(sql) ==
    IF sql = "" THEN CouldNotParse
    ELSE LET tables == extract_tables(sql)
             joins == extract_joins(sql)
             ctes == extract_ctes(sql)
             subqueries == count_subqueries(sql)
         IN  SQLAnalyzeOutput(TRUE, tables, joins, ctes, subqueries,
                              calculate_complexity(sql, tables, joins, ctes, subqueries))

InitSql ==
    /\ sql_parts \in SqlInputs
    /\ sql_content = Render(sql_parts)
    /\ analysis = <<>>
    /\ IdleLineage
    /\ IdleSandbox
    /\ IdleFiles
    /\ IdleDbt

Analyze ==
    /\ analysis = <<>>
    /\ analysis' = <<analyze_sql(sql_content)>>
    /\ UNCHANGED <<sql_parts, sql_content>>
    /\ UNCHANGED <<lineage_vars, sandbox_vars, file_vars, dbt_vars>>

NextSql == Analyze

SpecSql == InitSql /\ [][NextSql]_vars

(***************************************************************************)
(* Part 3. utils/sandbox.py and crew/project_crew.py                       *)
(*                                                                         *)
(* The sandbox is one module global.  Every ProjectAnalyzerCrew sets it,   *)
(* every tool reads it at the start of its _run.  A tool call is one step: *)
(* it reads the global once.                                               *)
(***************************************************************************)
\* the project directories on disk, each with its models (stem -> refs)
Disk ==
    [root \in {"/p1", "/p2"} |->
        IF root = "/p1"
        THEN [stem \in {"orders", "shared"} |-> IF stem = "shared" THEN <<"orders">> ELSE <<>>]
        ELSE [stem \in {"customers", "shared"} |->
                 IF stem = "shared" THEN <<"customers">> ELSE <<>>]]

Directories == DOMAIN Disk

\* what project_path can be: a directory, a path that does not exist, a file
ProjectPaths == Directories \cup {"/missing", "/p1/models/orders.sql"}

ModelNames == {"orders", "customers", "shared"}

\* SandboxValidator.__init__: the root must exist and be a directory
SandboxValidator(root_path) ==
    IF root_path \in Directories THEN <<root_path>> ELSE <<>>

SandboxError == "SandboxError"

\* the record of a call: who made it, the root it ran against and its result
Call(caller, tool, arg, root, result) ==
    [caller |-> caller, tool |-> tool, arg |-> arg, root |-> root, result |-> result]

NotFoundResult == [found |-> FALSE, refs |-> <<>>]

FoundResult(refs) == [found |-> TRUE, refs |-> refs]

Raised == [found |-> FALSE, refs |-> <<SandboxError>>]

InitSandbox ==
    /\ IdleSandbox
    /\ IdleLineage
    /\ IdleSql
    /\ IdleFiles
    /\ IdleDbt

\* ProjectAnalyzerCrew.__init__: set_sandbox(project_path) assigns the global
\* only after SandboxValidator was built; when it raises the constructor is
\* left, no analyzer exists and the global is as before
CreateCrew(caller, project_path) ==
    /\ IF SandboxValidator(project_path) # <<>>
       THEN /\ sandbox' = SandboxValidator(project_path)
            /\ crews' = [crews EXCEPT ![caller] = <<project_path>>]
            /\ last_call' = <<Call(caller, "ProjectAnalyzerCrew", project_path,
                                   <<project_path>>, FoundResult(<<>>))>>
       ELSE /\ UNCHANGED <<sandbox, crews>>
            /\ last_call' = <<Call(caller, "ProjectAnalyzerCrew", project_path, <<>>, Raised)>>
    /\ UNCHANGED <<lineage_vars, sql_vars, file_vars, dbt_vars>>

\* get_sandbox: the global, or SandboxError when it is None
get_sandbox == sandbox

\* LineageTracerTool._run as seen from its caller: the graph is built from
\* the files under get_sandbox().root_path and the model looked up in it
\* (the walks are Part 1)
TraceLineageCall(caller, name) ==
    /\ last_call' =
         <<IF get_sandbox = <<>>
           THEN Call(caller, "trace_lineage", name, <<>>, Raised)
           ELSE LET root_path == get_sandbox[1]
                IN  Call(caller, "trace_lineage", name, <<root_path>>,
                         IF name \in DOMAIN Disk[root_path]
                         THEN FoundResult(Disk[root_path][name])
                         ELSE NotFoundResult)>>
    /\ UNCHANGED <<sandbox, crews>>
    /\ UNCHANGED <<lineage_vars, sql_vars, file_vars, dbt_vars>>

\* DBTParserTool._run on models/<name>.sql: validate_path resolves the
\* relative path against get_sandbox().root_path; the file is read when it
\* exists
ParseModelCall(caller, name) ==
    /\ last_call' =
         <<IF get_sandbox = <<>>
           THEN Call(caller, "parse_dbt_model", name, <<>>, Raised)
           ELSE LET root_path == get_sandbox[1]
                IN  Call(caller, "parse_dbt_model", name, <<root_path>>,
                         IF name \in DOMAIN Disk[root_path]
                         THEN FoundResult(Disk[root_path][name])
                         ELSE NotFoundResult)>>
    /\ UNCHANGED <<sandbox, crews>>
    /\ UNCHANGED <<lineage_vars, sql_vars, file_vars, dbt_vars>>

NextSandbox ==
    \/ \E caller \in Callers, project_path \in ProjectPaths : CreateCrew(caller, project_path)
    \/ \E caller \in Callers, name \in ModelNames : TraceLineageCall(caller, name)
    \/ \E caller \in Callers, name \in ModelNames : ParseModelCall(caller, name)

SpecSandbox == InitSandbox /\ [][NextSandbox]_vars

(***************************************************************************)
(* Part 4. SandboxValidator.validate_path and the tools that call it       *)
(*                                                                         *)
(* A path is the sequence of its segments below "/", a candidate path the  *)
(* string a tool is given: absolute or not, with '..' segments anywhere.   *)
(* The file system holds directories, files and symbolic links; the tools  *)
(* add to it the files they write.                                         *)
(***************************************************************************)
\* the sandbox root of this part and what lies around it
RootPath == <<"root">>

Dirs == {<<>>, <<"root">>, <<"root", "d">>, <<"out">>}

Files == {<<"root", "f">>, <<"root", "d", "f">>, <<"out", "f">>}

\* root/esc -> /out, out/back -> /root, root/loop -> loop (itself)
Links ==
    (<<"root", "esc">> :> [absolute |-> TRUE, segments |-> <<"out">>])
    @@ (<<"out", "back">> :> [absolute |-> TRUE, segments |-> <<"root">>])
    @@ (<<"root", "loop">> :> [absolute |-> FALSE, segments |-> <<"loop">>])

Segments == {"..", "root", "out", "d", "f", "esc", "back", "loop"}

MaxSegments == 3

\* how many links a resolution follows before the loop is reported
MaxFollow == 8

SegmentLists == UNION {[1..n -> Segments] : n \in 0..MaxSegments}

CandidatePaths == [absolute : BOOLEAN, segments : SegmentLists]

Parent(p) == IF p = <<>> THEN p ELSE SubSeq(p, 1, Len(p) - 1)

\* os.path.realpath(strict=False): left to right, '..' leaves the directory
\* reached so far, a link is replaced by its target, a segment that does
\* not exist is kept.  A link that leads back to itself is kept as it is
\* and reported.
RECURSIVE realpath(_, _, _, _)
realpath(cur, rest, followed, loop) ==
    IF rest = <<>> THEN [loop |-> loop, path |-> cur]
    ELSE LET seg == Head(rest)
             next == Append(cur, seg)
         IN  IF seg = ".." THEN realpath(Parent(cur), Tail(rest), followed, loop)
             ELSE IF next \notin DOMAIN Links
                  THEN realpath(next, Tail(rest), followed, loop)
             ELSE IF followed >= MaxFollow
                  THEN realpath(next, Tail(rest), followed, TRUE)
             ELSE realpath(IF Links[next].absolute THEN <<>> ELSE cur,
                           Links[next].segments \o Tail(rest), followed + 1, loop)

\* the outcome of a call that returns a path or raises
Returned(p) == [raised |-> None, path |-> p]

Raises(e) == [raised |-> e, path |-> <<>>]

\* Path.resolve(): on a symlink loop pathlib before 3.13 raises
\* RuntimeError, later versions return the path with the link in it
resolve(target_path) ==
    LET r == realpath(<<>>, target_path, 0, FALSE)
    IN  IF r.loop THEN {Raises("RuntimeError"), Returned(r.path)}
        ELSE {Returned(r.path)}

\* a variant of relative_to that accepts every path
relative_to_anything(p, root_path) == TRUE

\* resolved_path.relative_to(self.root_path) does not raise ValueError
relative_to(p, root_path) ==
    /\ Len(p) >= Len(root_path)
    /\ SubSeq(p, 1, Len(root_path)) = root_path

\* SandboxValidator.validate_path: the outcomes of validating path
validate_path(root_path, path) ==
    LET target_path == IF path.absolute THEN path.segments
                       ELSE root_path \o path.segments
    IN  {IF r.raised # None THEN r
         ELSE IF relative_to(r.path, root_path) THEN Returned(r.path)
         ELSE Raises(SandboxError) : r \in resolve(target_path)}

\* ---- the file system as the tools see it
\* what a tool has put on disk: [path, kind] with kind "file" or "dir"
Entry4(p, kind) == [path |-> p, kind |-> kind]

exists(p) == p \in Dirs \cup Files \/ \E e \in disk : e.path = p

is_file(p) == p \in Files \/ Entry4(p, "file") \in disk

is_dir(p) == p \in Dirs \/ Entry4(p, "dir") \in disk

\* the proper ancestors of p, the root directory "/" included
Ancestors(p) == {SubSeq(p, 1, n) : n \in 0..(Len(p) - 1)}

\* the names directly inside directory p: what iterdir() yields
iterdir(p) ==
    {q \in Dirs \cup Files \cup DOMAIN Links \cup {e.path : e \in disk} :
        q # <<>> /\ Parent(q) = p}

\* one file-system operation of a tool, in the order it was made
Op(kind, p) == [op |-> kind, path |-> p]

\* how the body of a _run ends: with a text, or by raising
Run(io, raised, text, d) == [io |-> io, raised |-> raised, text |-> text, disk |-> d]

Text4(io, text) == Run(io, None, text, disk)

Fail(io, e) == Run(io, e, "", disk)

\* the exceptions a tool body raises; FileExistsError, IsADirectoryError,
\* NotADirectoryError and PermissionError are OSError
Exceptions ==
    {SandboxError, "RuntimeError", "OSError", "UnicodeDecodeError", "ValidationError"}

\* a handler that catches the sandbox failure only
except_SandboxError(e) == e = SandboxError

\* `except Exception as e`: every exception a tool body can raise
except_Exception(e) == e \in Exceptions

\* try: body / except Exception as e: return f"Error <doing>: {str(e)}"
Try(runs, message) ==
    {IF r.raised # None /\ except_Exception(r.raised)
     THEN [r EXCEPT !.raised = None, !.text = message]
     ELSE r : r \in runs}

\* a variant that falls back to a default root where no sandbox was configured
validated_under_default_root(path) ==
    validate_path(IF get_sandbox = <<>> THEN RootPath ELSE get_sandbox[1], path)

\* sandbox = get_sandbox(); validated_path = sandbox.validate_path(path):
\* the set of outcomes, get_sandbox raising when the global is None
Validated(path) ==
    IF get_sandbox = <<>> THEN {Raises(SandboxError)}
    ELSE validate_path(get_sandbox[1], path)

\* sandbox.is_valid_path(item) for the items of a listing: SandboxError is
\* answered with False, any other exception leaves the listing
ItemErrors(items) ==
    {v.raised : v \in UNION {validate_path(get_sandbox[1],
                                 [absolute |-> TRUE, segments |-> q]) : q \in items}}
    \ {None, SandboxError}

\* ReadFileTool._run
read_file(file_path) ==
    Try(UNION {
        IF v.raised # None THEN {Fail(<<>>, v.raised)}
        ELSE IF ~exists(v.path) THEN {Text4(<<>>, "Error: File not found")}
        ELSE IF ~is_file(v.path) THEN {Text4(<<>>, "Error: Path is not a file")}
        ELSE {Text4(<<Op("read", v.path)>>, "**File:**"),
              Text4(<<Op("read", v.path), Op("read", v.path)>>, "**File:**"),
              Fail(<<Op("read", v.path)>>, "OSError")}
        : v \in Validated(file_path)}, "Error reading file")

\* validated_path.parent.mkdir(parents=True, exist_ok=True): the missing
\* ancestors, or the exception when one of them is a file
mkdir_parents(p) == {Entry4(q, "dir") : q \in {a \in Ancestors(p) : ~exists(a)}}

\* a variant of write_file without the test of lines 37-41
write_file_unguarded(file_path, create_dirs, overwrite) ==
    Try(UNION {
        IF v.raised # None THEN {Fail(<<>>, v.raised)}
        ELSE IF ~create_dirs /\ ~exists(Parent(v.path))
             THEN {Text4(<<>>, "Error: Parent directory does not exist")}
        ELSE LET made == IF create_dirs THEN mkdir_parents(v.path) ELSE {}
                 io == IF create_dirs THEN <<Op("mkdir", Parent(v.path))>> ELSE <<>>
             IN  IF create_dirs /\ \E a \in Ancestors(v.path) : is_file(a)
                 THEN {Fail(io, "OSError")}
                 ELSE {Run(Append(io, Op("write", v.path)), "OSError", "", disk \cup made)}
                      \cup (IF is_dir(v.path) \/ is_file(Parent(v.path))
                               \/ v.path \in DOMAIN Links THEN {}
                            ELSE {Run(Append(io, Op("write", v.path)), None,
                                      IF exists(v.path) THEN "**Updated:**"
                                      ELSE "**Created:**",
                                      disk \cup made \cup {Entry4(v.path, "file")})})
        : v \in Validated(file_path)}, "Error writing file")

\* WriteFileTool._run; the write fails on a directory, below a file and on
\* a link left unresolved (a looping one)
write_file(file_path, create_dirs, overwrite) ==
    Try(UNION {
        IF v.raised # None THEN {Fail(<<>>, v.raised)}
        ELSE IF exists(v.path) /\ ~overwrite
             THEN {Text4(<<>>, "Error: File already exists")}
        ELSE IF ~create_dirs /\ ~exists(Parent(v.path))
             THEN {Text4(<<>>, "Error: Parent directory does not exist")}
        ELSE LET made == IF create_dirs THEN mkdir_parents(v.path) ELSE {}
                 io == IF create_dirs THEN <<Op("mkdir", Parent(v.path))>> ELSE <<>>
             IN  IF create_dirs /\ \E a \in Ancestors(v.path) : is_file(a)
                 THEN {Fail(io, "OSError")}
                 ELSE {Run(Append(io, Op("write", v.path)), "OSError", "", disk \cup made)}
                      \cup (IF is_dir(v.path) \/ is_file(Parent(v.path))
                               \/ v.path \in DOMAIN Links THEN {}
                            ELSE {Run(Append(io, Op("write", v.path)), None,
                                      IF exists(v.path) THEN "**Updated:**"
                                      ELSE "**Created:**",
                                      disk \cup made \cup {Entry4(v.path, "file")})})
        : v \in Validated(file_path)}, "Error writing file")

\* EditFileTool._run; found says whether old_text occurs in the content
edit_file(file_path, found) ==
    Try(UNION {
        IF v.raised # None THEN {Fail(<<>>, v.raised)}
        ELSE IF ~exists(v.path) THEN {Text4(<<>>, "Error: File not found")}
        ELSE IF ~is_file(v.path) THEN {Text4(<<>>, "Error: Path is not a file")}
        ELSE {Text4(<<Op("read", v.path)>>, "Error: Cannot edit binary file"),
              Fail(<<Op("read", v.path)>>, "OSError")}
             \cup (IF ~found
                   THEN {Text4(<<Op("read", v.path)>>, "Error: Text not found in file")}
                   ELSE {Run(<<Op("read", v.path), Op("write", v.path)>>, None,
                             "**Edited:**", disk \cup {Entry4(v.path, "file")}),
                         Fail(<<Op("read", v.path), Op("write", v.path)>>, "OSError")})
        : v \in Validated(file_path)}, "Error editing file")

\* ListDirectoryTool._run (not recursive)
list_directory(directory_path) ==
    Try(UNION {
        IF v.raised # None THEN {Fail(<<>>, v.raised)}
        ELSE IF ~exists(v.path) THEN {Text4(<<>>, "Error: Directory not found")}
        ELSE IF ~is_dir(v.path) THEN {Text4(<<>>, "Error: Path is not a directory")}
        ELSE {Fail(<<Op("list", v.path)>>, "OSError"),
              Text4(<<Op("list", v.path)>>, "**Directory:**")}
             \cup {Fail(<<Op("list", v.path)>>, e) : e \in ItemErrors(iterdir(v.path))}
        : v \in Validated(directory_path)}, "Error listing directory")

\* the directories _build_tree lists: p, then the subdirectories that pass
\* its filter, each followed by its own (the order among the
\* subdirectories of one directory is by name in the code, any here)
RECURSIVE SeqOf(_)
SeqOf(S) ==
    IF S = {} THEN <<>>
    ELSE LET x == CHOOSE y \in S : TRUE IN <<x>> \o SeqOf(S \ {x})

RECURSIVE Listed(_)
Listed(p) ==
    LET subs == SeqOf({i \in iterdir(p) : is_dir(i)})
        RECURSIVE Below(_)
        Below(k) == IF k > Len(subs) THEN <<>> ELSE Listed(subs[k]) \o Below(k + 1)
    IN  <<p>> \o Below(1)

ListOps(p) == [k \in 1..Len(Listed(p)) |-> Op("list", Listed(p)[k])]

\* ProjectStructureTool._run and _build_tree
get_project_structure(directory_path) ==
    Try(UNION {
        IF v.raised # None THEN {Fail(<<>>, v.raised)}
        ELSE IF ~is_dir(v.path) THEN {Text4(<<>>, "Error: Not a directory")}
        ELSE {Fail(<<Op("list", v.path)>>, "OSError"),
              Text4(ListOps(v.path), "**Project Structure**")}
             \cup {Fail(ListOps(v.path), e) :
                      e \in UNION {ItemErrors(iterdir(Listed(v.path)[k])) :
                                      k \in 1..Len(Listed(v.path))}}
        : v \in Validated(directory_path)}, "Error getting project structure")

\* DBTParserTool._run up to the reading of the model (the extraction is
\* Part 5; no directory of this disk holds a companion document)
parse_dbt_model(model_path) ==
    Try(UNION {
        IF v.raised # None THEN {Fail(<<>>, v.raised)}
        ELSE IF ~exists(v.path) THEN {Text4(<<>>, "Error: Model file not found")}
        ELSE IF ~is_file(v.path) THEN {Fail(<<Op("read", v.path)>>, "OSError")}
        ELSE {Text4(<<Op("read", v.path)>>, "## dbt Model:"),
              Fail(<<Op("read", v.path)>>, "UnicodeDecodeError"),
              Fail(<<Op("read", v.path)>>, "OSError")}
        : v \in Validated(model_path)}, "Error parsing dbt model")

\* SearchCodeTool._run: the pattern is compiled, then every file under the
\* root is read; a file that cannot be read is passed over
search_code(compiles) ==
    Try(IF get_sandbox = <<>> THEN {Fail(<<>>, SandboxError)}
        ELSE IF ~compiles THEN {Text4(<<>>, "Error: Invalid regex pattern")}
        ELSE {Text4(<<Op("list", get_sandbox[1])>>, "**Search pattern:**"),
              Fail(<<Op("list", get_sandbox[1])>>, "OSError")},
        "Error searching code")

\* SQLAnalyzeTool._run as far as its failures go (the analysis is Part 2):
\* sqlparse returns no statement, or a statement, or an extractor or the
\* output schema raises
analyze_sql_run(parsed) ==
    Try(CASE parsed = "nothing" -> {Text4(<<>>, "Error: Could not parse SQL")}
          [] parsed = "statement" -> {Text4(<<>>, "## SQL Analysis")}
          [] OTHER -> {Fail(<<>>, "ValidationError")},
        "Error analyzing SQL")

\* LineageTracerTool._run as far as its failures go (the scan and the walks
\* are Part 1): the sandbox is read, the files are read, the model is
\* looked up
trace_lineage_run(readable, lookup) ==
    Try(IF get_sandbox = <<>> THEN {Fail(<<>>, SandboxError)}
        ELSE IF ~readable THEN {Fail(<<Op("list", get_sandbox[1])>>, "OSError")}
        ELSE {Text4(<<Op("list", get_sandbox[1])>>,
                    CASE lookup = "found" -> "## Lineage:"
                      [] lookup = "suggest" -> "Model not found. Did you mean:"
                      [] OTHER -> "Model not found in project")},
        "Error tracing lineage")

\* the paths the tools are called with: files, directories, names that do
\* not exist, ways out of the root through '..', through a link and by an
\* absolute path, and a link that loops
ToolPaths ==
    {[absolute |-> FALSE, segments |-> s] :
        s \in {<<>>, <<"f">>, <<"d">>, <<"d", "f">>, <<"d", "out">>, <<"f", "d">>,
               <<"out", "d", "f">>, <<"..", "out", "f">>, <<"esc", "f">>, <<"loop">>,
               <<"d", "..", "f">>, <<"esc", "back", "d">>}}
    \cup {[absolute |-> TRUE, segments |-> s] :
            s \in {<<"out", "f">>, <<"root", "d", "f">>, <<"root", "..", "out">>}}

\* the record of a call: the tool, the path it was given, what it did on the
\* file system, and how its _run ended
FileCall(tool, path, r) ==
    [tool |-> tool, path |-> path, io |-> r.io, raised |-> r.raised, text |-> r.text,
     root |-> sandbox]

Answer(tool, path, runs) ==
    \E r \in runs :
        /\ file_call' = <<FileCall(tool, path, r)>>
        /\ disk' = r.disk
        /\ UNCHANGED <<sandbox, crews, last_call>>
        /\ UNCHANGED <<lineage_vars, sql_vars, dbt_vars>>

\* how many paths the tools may write before the disk is left alone
MaxWritten == 1

InitFiles ==
    /\ IdleFiles
    /\ IdleLineage
    /\ IdleSql
    /\ IdleSandbox
    /\ IdleDbt

\* the roots set_sandbox is called with: two directories, a name that does
\* not exist, a file, a link to a directory and a link that loops
SandboxRoots ==
    {RootPath, <<"out">>, <<"missing">>, <<"root", "f">>, <<"root", "esc">>,
     <<"root", "loop">>}

\* SandboxValidator.__init__: the resolved root, or what the constructor raises
new_validator(root_path) ==
    {IF r.raised # None THEN r
     ELSE IF ~exists(r.path) THEN Raises(SandboxError)
     ELSE IF ~is_dir(r.path) THEN Raises(SandboxError)
     ELSE r : r \in resolve(root_path)}

\* set_sandbox(root_path): the global is assigned after the constructor
\* has returned
SetSandbox(root_path) ==
    /\ \E v \in new_validator(root_path) :
          /\ sandbox' = IF v.raised = None THEN <<v.path>> ELSE sandbox
          /\ file_call' = <<[tool |-> "set_sandbox",
                              path |-> [absolute |-> TRUE, segments |-> root_path],
                              io |-> <<>>, raised |-> v.raised, text |-> "",
                              returned |-> v.path, root |-> sandbox]>>
    /\ UNCHANGED <<disk, crews, last_call>>
    /\ UNCHANGED <<lineage_vars, sql_vars, dbt_vars>>

\* a direct call of validate_path (join_path, get_relative_path and
\* is_valid_path make one)
ValidatePath(path) ==
    /\ get_sandbox # <<>>
    /\ \E v \in validate_path(get_sandbox[1], path) :
           file_call' = <<[tool |-> "validate_path", path |-> path, io |-> <<>>,
                           raised |-> v.raised, text |-> "", returned |-> v.path,
                           root |-> sandbox]>>
    /\ UNCHANGED <<disk, sandbox, crews, last_call>>
    /\ UNCHANGED <<lineage_vars, sql_vars, dbt_vars>>

ReadFile(path) == Answer("read_file", path, read_file(path))

\* the record of a call with the arguments it was given besides the path
AnswerWith(tool, path, args, runs) ==
    \E r \in runs :
        /\ file_call' = <<FileCall(tool, path, r) @@ args>>
        /\ disk' = r.disk
        /\ UNCHANGED <<sandbox, crews, last_call>>
        /\ UNCHANGED <<lineage_vars, sql_vars, dbt_vars>>

WriteFile(path, create_dirs, overwrite) ==
    /\ Cardinality(disk) < MaxWritten
    /\ AnswerWith("write_file", path,
                  [create_dirs |-> create_dirs, overwrite |-> overwrite],
                  write_file(path, create_dirs, overwrite))

EditFile(path, found) ==
    /\ Cardinality(disk) < MaxWritten
    /\ Answer("edit_file", path, edit_file(path, found))

ListDirectory(path) == Answer("list_directory", path, list_directory(path))

GetProjectStructure(path) ==
    Answer("get_project_structure", path, get_project_structure(path))

ParseDbtModel(path) == Answer("parse_dbt_model", path, parse_dbt_model(path))

SearchCode(compiles) ==
    Answer("search_code", [absolute |-> FALSE, segments |-> <<>>], search_code(compiles))

AnalyzeSql(parsed) ==
    Answer("analyze_sql", [absolute |-> FALSE, segments |-> <<>>], analyze_sql_run(parsed))

TraceLineage(readable, lookup) ==
    Answer("trace_lineage", [absolute |-> FALSE, segments |-> <<>>],
           trace_lineage_run(readable, lookup))

\* validate_path on its own, on every candidate path
NextPaths ==
    \/ SetSandbox(RootPath)
    \/ \E path \in CandidatePaths : ValidatePath(path)

SpecPaths == InitFiles /\ [][NextPaths]_vars

NextFiles ==
    \/ \E root_path \in SandboxRoots : SetSandbox(root_path)
    \/ \E path \in ToolPaths : ReadFile(path)
    \/ \E path \in ToolPaths, create_dirs, overwrite \in BOOLEAN :
           WriteFile(path, create_dirs, overwrite)
    \/ \E path \in ToolPaths, found \in BOOLEAN : EditFile(path, found)
    \/ \E path \in ToolPaths : ListDirectory(path)
    \/ \E path \in ToolPaths : GetProjectStructure(path)
    \/ \E path \in ToolPaths : ParseDbtModel(path)
    \/ \E compiles \in BOOLEAN : SearchCode(compiles)
    \/ \E parsed \in {"nothing", "statement", "raises"} : AnalyzeSql(parsed)
    \/ \E readable \in BOOLEAN, lookup \in {"found", "suggest", "none"} :
           TraceLineage(readable, lookup)

SpecFiles == InitFiles /\ [][NextFiles]_vars

(***************************************************************************)
(* Part 5. tools/dwh/dbt_parser.py                                         *)
(*                                                                         *)
(* The patterns of this file are compiled without re.IGNORECASE: a text is *)
(* matched as written.  A model file is written from the keys of its       *)
(* config block; the companion documents are what yaml.safe_load returns   *)
(* for them, or the fact that it raises.                                   *)
(***************************************************************************)
\* a text matched letter case and all
Exact(s) == [raw |-> s, low |-> s]

\* \w when letters are not lowered
WordAny == Chr(WordChars \cup Chars(Uppers))

\* ['\"] and [^'\"]
Quote == Chr({"'", "\""})

NotQuote == NotChr({"'", "\""})

Spaces == Star(SpaceCh)

\* \{\{\s*ref\s*\(\s*['\"]([^'\"]+)['\"]\s*\)\s*\}\}
RefPattern ==
    Cat(<<Lit("{{"), Spaces, Lit("ref"), Spaces, Lit("("), Spaces, Quote,
          Grp(1, Plus(NotQuote)), Quote, Spaces, Lit(")"), Spaces, Lit("}}")>>)

\* \{\{\s*source\s*\(\s*['\"]([^'\"]+)['\"]\s*,\s*['\"]([^'\"]+)['\"]\s*\)\s*\}\}
SourcePattern ==
    Cat(<<Lit("{{"), Spaces, Lit("source"), Spaces, Lit("("), Spaces, Quote,
          Grp(1, Plus(NotQuote)), Quote, Spaces, Lit(","), Spaces, Quote,
          Grp(2, Plus(NotQuote)), Quote, Spaces, Lit(")"), Spaces, Lit("}}")>>)

\* \{\{\s*config\s*\((.*?)\)\s*\}\} with re.DOTALL
ConfigBlockPattern ==
    Cat(<<Lit("{{"), Spaces, Lit("config"), Spaces, Lit("("), Grp(1, LazyStar(AnyChar)),
          Lit(")"), Spaces, Lit("}}")>>)

\* key\s*=\s*['\"](\w+)['\"] for materialized, schema and alias
ScalarPattern(key) ==
    Cat(<<Lit(key), Spaces, Lit("="), Spaces, Quote, Grp(1, Plus(WordAny)), Quote>>)

\* tags\s*=\s*\[(.*?)\]
TagsPattern ==
    Cat(<<Lit("tags"), Spaces, Lit("="), Spaces, Lit("["),
          Grp(1, LazyStar(NotChr({"\n"}))), Lit("]")>>)

\* ['\"]([^'\"]+)['\"]
TagPattern == Cat(<<Quote, Grp(1, Plus(NotQuote)), Quote>>)

\* re.search(pattern, s): <<>> or <<start, way>>
Search(r, s) == SearchFrom(r, Exact(s), 1)

\* re.findall(pattern, s), the groups of each match
FindAllExact(r, s) ==
    LET hits == FindIter(r, Exact(s), 1) IN [k \in 1..Len(hits) |-> hits[k][2].c]

\* DBTParserTool._extract_refs: list(set(refs)) is the set
extract_refs(sql) == {m[1] : m \in Range(FindAllExact(RefPattern, sql))}

\* DBTParserTool._extract_sources
extract_sources(sql) ==
    {m[1] \o "." \o m[2] : m \in Range(FindAllExact(SourcePattern, sql))}

\* a dict with one key, and the dict without keys
Item(k, v) == k :> v

NoItems == <<>>

\* DBTParserTool._extract_config
extract_config(sql) ==
    LET match == Search(ConfigBlockPattern, sql)
    IN  IF match = <<>> THEN NoItems
        ELSE LET config_str == match[2].c[1]
                 mat_match == Search(ScalarPattern("materialized"), config_str)
                 tags_match == Search(TagsPattern, config_str)
                 schema_match == Search(ScalarPattern("schema"), config_str)
                 alias_match == Search(ScalarPattern("alias"), config_str)
                 tags == IF tags_match = <<>> THEN <<>>
                         ELSE FindAllExact(TagPattern, tags_match[2].c[1])
             IN  (IF mat_match = <<>> THEN NoItems
                  ELSE Item("materialized", mat_match[2].c[1]))
                 @@ (IF tags_match = <<>> THEN NoItems
                     ELSE Item("tags", [k \in 1..Len(tags) |-> tags[k][1]]))
                 @@ (IF schema_match = <<>> THEN NoItems
                     ELSE Item("schema", schema_match[2].c[1]))
                 @@ (IF alias_match = <<>> THEN NoItems
                     ELSE Item("alias", alias_match[2].c[1]))

\* a variant with another default
materialization_table(config) == Get(config, "materialized", "table")

\* config.get("materialized", "view")
materialization(config) == Get(config, "materialized", "view")

\* ---- the companion documents
SchemaFiles == <<"schema.yml", "_schema.yml", "schema.yaml", "_models.yml">>

\* search_dirs: the directory of the model, then its parent when the
\* directory is named models
search_dirs(parent_name) == IF parent_name = "models" THEN <<"own", "parent">> ELSE <<"own">>

\* the candidates in the order of the two loops
Candidates(parent_name) ==
    LET dirs == search_dirs(parent_name)
    IN  [k \in 1..(Len(dirs) * Len(SchemaFiles)) |->
            <<dirs[((k - 1) \div Len(SchemaFiles)) + 1], SchemaFiles[((k - 1) % Len(SchemaFiles)) + 1]>>]

\* ColumnInfo(name, description, data_type, tests)
ColumnInfo(name, description) == [name |-> name, description |-> description]

\* a column that is no mapping: col.get raises AttributeError
Malformed == [mapping |-> FALSE]

\* an entry under models: of a document
ModelEntry(name, description, columns) ==
    [name |-> name, description |-> description, columns |-> columns]

\* the entries of doc named name, in order
Named(doc, name) ==
    SelectSeq(doc.models, LAMBDA e : e.name = name)

\* the columns of an entry up to the first that is malformed
RECURSIVE Parsed(_)
Parsed(columns) ==
    IF columns = <<>> \/ Head(columns) = Malformed THEN <<>>
    ELSE <<Head(columns)>> \o Parsed(Tail(columns))

\* DBTParserTool._find_schema_info from candidate k on; result is the dict
\* the function fills, which an exception in the middle of an entry leaves
\* half filled while the search goes on (`except Exception: continue`);
\* its field read lists the candidates whose read_text was called
RECURSIVE find_schema_info(_, _, _, _, _)
find_schema_info(cands, k, docs, name, result) ==
    IF k > Len(cands) THEN result
    ELSE IF cands[k] \notin DOMAIN docs
         THEN find_schema_info(cands, k + 1, docs, name, result)
    ELSE LET doc == docs[cands[k]]
             opened == [result EXCEPT !.read = Append(@, cands[k])]
         IN  IF doc.raises \/ doc.models = <<>> \/ Named(doc, name) = <<>>
             THEN find_schema_info(cands, k + 1, docs, name, opened)
             ELSE LET model == Named(doc, name)[1]
                      filled == [description |-> model.description,
                                 columns |-> result.columns \o Parsed(model.columns),
                                 read |-> opened.read]
                  IN  IF \E i \in 1..Len(model.columns) : model.columns[i] = Malformed
                      THEN find_schema_info(cands, k + 1, docs, name, filled)
                      ELSE filled

NoSchemaInfo == [description |-> None, columns |-> <<>>, read |-> <<>>]

\* DBTModelOutput
DBTModelOutput(name, description, columns, refs, sources, mat, tags, config) ==
    [name |-> name, description |-> description, columns |-> columns, refs |-> refs,
     sources |-> sources, materialization |-> mat, tags |-> tags, config |-> config]

\* DBTParserTool._run on a model that exists below the root and can be read
parse_model(name, parent_name, sql_text, docs) ==
    LET config == extract_config(sql_text)
        schema_info == find_schema_info(Candidates(parent_name), 1, docs, name, NoSchemaInfo)
    IN  DBTModelOutput(name, schema_info.description, schema_info.columns,
                       extract_refs(sql_text), extract_sources(sql_text),
                       materialization(config), Get(config, "tags", <<>>), config)

\* ---- the model files: the forms of each key of the config block
Forms == {"absent", "well", "bad"}

\* keys the parser does not know
ExtraKeys == {"none", "unique_key", "target_schema"}

KeyText(key, form) ==
    CASE form = "absent" -> <<>>
      [] key = "materialized" ->
           <<IF form = "well" THEN "materialized=\"table\"" ELSE "materialized=table">>
      [] key = "tags" ->
           <<IF form = "well" THEN "tags=[\"finance\",\"daily\"]" ELSE "tags=\"finance\"">>
      [] key = "schema" -> <<IF form = "well" THEN "schema='mart'" ELSE "schema=mart">>
      [] key = "alias" ->
           <<IF form = "well" THEN "alias=\"dim_orders\"" ELSE "alias=dim_orders">>

ExtraText(extra) ==
    CASE extra = "none" -> <<>>
      [] extra = "unique_key" -> <<"unique_key='id'">>
      [] extra = "target_schema" -> <<"target_schema='snapshots'">>

RECURSIVE Commas(_)
Commas(texts) ==
    IF texts = <<>> THEN ""
    ELSE IF Len(texts) = 1 THEN texts[1]
    ELSE texts[1] \o ", " \o Commas(Tail(texts))

\* a config: whether the file has a block, what the block holds, and
\* whether a second block follows the query
\* a model file without a config block
BareConfig ==
    [block |-> FALSE, extra |-> "none", materialized |-> "absent", tags |-> "absent",
     schema |-> "absent", alias |-> "absent", second |-> FALSE]

ConfigInputs ==
    {BareConfig}
    \cup [block : {TRUE}, extra : ExtraKeys, materialized : Forms, tags : Forms,
          schema : Forms, alias : Forms, second : BOOLEAN]

\* {{ config(materialized="table", tags=["finance","daily"]) }}
ScenarioConfig ==
    [block |-> TRUE, extra |-> "none", materialized |-> "well", tags |-> "well",
     schema |-> "absent", alias |-> "absent", second |-> FALSE]

RenderModel(c) ==
    (IF c.block
     THEN "{{ config(" \o Commas(ExtraText(c.extra) \o KeyText("materialized", c.materialized)
                                 \o KeyText("tags", c.tags) \o KeyText("schema", c.schema)
                                 \o KeyText("alias", c.alias)) \o ") }}\n"
     ELSE "")
    \o "select * from {{ ref('stg_orders') }} join {{ source('raw', 'customers') }}"
    \o (IF c.second THEN "\n{{ config(materialized='second', alias='second') }}" ELSE "")

\* ---- the documents next to the model orders.sql
DocKinds == {"absent", "match", "other", "half", "broken", "empty"}

\* what safe_load returns for a document of each kind found at slot
Document(kind, slot) ==
    CASE kind = "match" ->
           [raises |-> FALSE,
            models |-> <<ModelEntry("customers", "Customers", <<>>),
                         ModelEntry("orders", slot[1] \o "/" \o slot[2],
                                    <<ColumnInfo("id", "key of " \o slot[2])>>)>>]
      [] kind = "half" ->
           [raises |-> FALSE,
            models |-> <<ModelEntry("orders", slot[1] \o "/" \o slot[2],
                                    <<ColumnInfo("id", "key of " \o slot[2]), Malformed>>)>>]
      [] kind = "other" ->
           [raises |-> FALSE, models |-> <<ModelEntry("customers", "Customers", <<>>)>>]
      [] kind = "broken" -> [raises |-> TRUE, models |-> <<>>]
      [] kind = "empty" -> [raises |-> FALSE, models |-> <<>>]

\* the slots that hold a document in some project of the model
Slots == {<<"own", "schema.yml">>, <<"own", "_models.yml">>, <<"parent", "schema.yml">>}

\* the documents on disk: a slot is in the domain when its file exists
DocumentSets ==
    {[s \in {t \in Slots : kinds[t] # "absent"} |-> Document(kinds[s], s)] :
        kinds \in [Slots -> DocKinds]}

\* where orders.sql lies: the sandbox root and the directory below it
Location(root, dir) == [root |-> root, dir |-> dir]

\* a root that is itself named models, with the model directly in it
ModelsRoot == <<"srv", "models">>

Locations ==
    {Location(ProjectRoot, <<"models">>), Location(ProjectRoot, <<"models", "staging">>),
     Location(ModelsRoot, <<>>)}

\* validated_path.parent and its name
OwnDir(mf) == mf.root \o mf.dir

ParentName(mf) == OwnDir(mf)[Len(OwnDir(mf))]

\* search_dir / schema_name
SchemaPath(mf, slot) ==
    (IF slot[1] = "own" THEN OwnDir(mf) ELSE Parent(OwnDir(mf))) \o <<slot[2]>>

\* the files a call reads: the model, then the candidates it opens
files_read(mf, name) ==
    LET info == find_schema_info(Candidates(ParentName(mf)), 1, mf.documents, name, NoSchemaInfo)
    IN  <<OwnDir(mf) \o <<name \o ".sql">>>>
        \o [k \in 1..Len(info.read) |-> SchemaPath(mf, info.read[k])]

ModelFiles ==
    {[config |-> c, root |-> ProjectRoot, dir |-> <<"models">>, documents |-> <<>>] :
        c \in ConfigInputs}
    \cup {[config |-> ScenarioConfig, root |-> l.root, dir |-> l.dir, documents |-> d] :
            l \in Locations, d \in DocumentSets}
    \cup {[config |-> BareConfig, root |-> ProjectRoot, dir |-> <<"models">>, documents |-> d] :
            d \in DocumentSets}

InitDbt ==
    /\ model_file \in ModelFiles
    /\ dbt_record = <<>>
    /\ IdleLineage
    /\ IdleSql
    /\ IdleSandbox
    /\ IdleFiles

\* parse_dbt_model(<dir>/orders.sql): the record, and the files read for it
ParseModel ==
    /\ dbt_record = <<>>
    /\ dbt_record' = <<parse_model("orders", ParentName(model_file),
                                   RenderModel(model_file.config), model_file.documents),
                       files_read(model_file, "orders")>>
    /\ UNCHANGED model_file
    /\ UNCHANGED <<lineage_vars, sql_vars, sandbox_vars, file_vars>>

NextDbt == ParseModel

SpecDbt == InitDbt /\ [][NextDbt]_vars

(***************************************************************************)
(* Part 6. tools/file/edit_file.py, lines 47-75: the replacement            *)
(*                                                                         *)
(* A text is a sequence of characters.  str.count and str.replace are      *)
(* computed as CPython computes them: leftmost occurrences that do not     *)
(* overlap, an empty search text found before every character and at the   *)
(* end, and a negative count of str.replace standing for no limit.         *)
(***************************************************************************)
\* the longest file content and the largest count edit_file is called with
MaxContent == 3

MaxCount == 2

Letters == {"a", "b"}

\* the texts of at most n letters
Texts(n) == UNION {[1..k -> Letters] : k \in 0..n}

\* old occurs in s at position i
IsAt(s, old, i) ==
    i + Len(old) - 1 <= Len(s) /\ SubSeq(s, i, i + Len(old) - 1) = old

\* old_text in content
contains(s, old) == \E i \in 1..(Len(s) + 1) : IsAt(s, old, i)

\* content.count(old_text), from position i on
RECURSIVE str_count(_, _, _)
str_count(s, old, i) ==
    IF old = <<>> THEN Len(s) + 2 - i
    ELSE IF i + Len(old) - 1 > Len(s) THEN 0
    ELSE IF IsAt(s, old, i) THEN 1 + str_count(s, old, i + Len(old))
    ELSE str_count(s, old, i + 1)

\* content.replace(old_text, new_text, maxcount), from position i on: the
\* new text and the number of occurrences replaced in it
RECURSIVE str_replace(_, _, _, _, _)
str_replace(s, old, new, maxcount, i) ==
    IF maxcount = 0 THEN [text |-> SubSeq(s, i, Len(s)), made |-> 0]
    ELSE IF old = <<>>
    THEN IF i > Len(s) THEN [text |-> new, made |-> 1]
         ELSE LET r == str_replace(s, old, new, maxcount - 1, i + 1)
              IN  [text |-> new \o <<s[i]>> \o r.text, made |-> r.made + 1]
    ELSE IF i + Len(old) - 1 > Len(s) THEN [text |-> SubSeq(s, i, Len(s)), made |-> 0]
    ELSE IF IsAt(s, old, i)
    THEN LET r == str_replace(s, old, new, maxcount - 1, i + Len(old))
         IN  [text |-> new \o r.text, made |-> r.made + 1]
    ELSE LET r == str_replace(s, old, new, maxcount, i + 1)
         IN  [text |-> <<s[i]>> \o r.text, made |-> r.made]

\* lines 62-68: replacements_made as the code computes it
replacements_made(count, occurrences, made) ==
    IF count = 0 THEN occurrences ELSE Min(count, occurrences)

\* lines 47-75 of EditFileTool._run on a file that was read: the answer,
\* what was written back, the number reported and the number replaced
edit_text(content, old_text, new_text, count) ==
    IF ~contains(content, old_text)
    THEN [text |-> "Error: Text not found in file", written |-> <<>>,
          replacements_made |-> 0, occurrences |-> 0, replaced |-> 0]
    ELSE LET occurrences == str_count(content, old_text, 1)
             r == str_replace(content, old_text, new_text,
                              IF count = 0 THEN -1 ELSE count, 1)
         IN  [text |-> "**Edited:**", written |-> <<r.text>>,
              replacements_made |-> replacements_made(count, occurrences, r.made),
              occurrences |-> occurrences, replaced |-> r.made]

NewTexts == {<<>>, <<"b">>, <<"a", "a">>}

Counts == (0 - MaxCount)..MaxCount

\* edit_file on a file of the given content
EditText(content, old_text, new_text, count) ==
    /\ get_sandbox # <<>>
    /\ file_call' = <<[tool |-> "edit_file", content |-> content,
                        old_text |-> old_text, new_text |-> new_text,
                        count |-> count]
                      @@ edit_text(content, old_text, new_text, count)>>
    /\ UNCHANGED <<disk, sandbox_vars>>
    /\ UNCHANGED <<lineage_vars, sql_vars, dbt_vars>>

NextEdit ==
    \/ SetSandbox(RootPath)
    \/ \E content \in Texts(MaxContent), old_text \in Texts(2), new_text \in NewTexts,
          count \in Counts : EditText(content, old_text, new_text, count)

SpecEdit == InitFiles /\ [][NextEdit]_vars

(***************************************************************************)
(* Part 7. tools/file/search_code.py, lines 44-86: the scan                 *)
(*                                                                         *)
(* The project tree is the sequence of text files in the order rglob       *)
(* yields them.  A file is unreadable, or a sequence of lines, and a line  *)
(* is TRUE where the pattern is found in it.                               *)
(***************************************************************************)
\* the most files in a tree, the most lines in a file and the largest
\* max_results
MaxFiles == 2

MaxLines == 2

MaxResults == 3

SourceFile(readable, lines) == [readable |-> readable, lines |-> lines]

SourceFiles ==
    {SourceFile(FALSE, <<>>)}
    \cup {SourceFile(TRUE, l) : l \in UNION {[1..k -> BOOLEAN] : k \in 0..MaxLines}}

Trees == UNION {[1..k -> SourceFiles] : k \in 0..MaxFiles}

ResultLimits == (0 - 1)..MaxResults

\* lines 68-80: the lines of file f from line n on; a line is examined, a
\* match is appended, and the loop is left when the list is long enough
RECURSIVE scan_lines(_, _, _, _, _)
scan_lines(lines, f, n, max_results, st) ==
    IF n > Len(lines) THEN st
    ELSE LET seen == [st EXCEPT !.examined = Append(@, <<f, n>>)]
             hit == [seen EXCEPT !.matches = Append(@, <<f, n>>)]
         IN  IF ~lines[n] THEN scan_lines(lines, f, n + 1, max_results, seen)
             ELSE IF Len(hit.matches) >= max_results THEN hit
             ELSE scan_lines(lines, f, n + 1, max_results, hit)

\* lines 48-86: the files from file f on; a file that cannot be read is
\* passed over by `except Exception: continue`
RECURSIVE scan_files(_, _, _, _)
scan_files(tree, f, max_results, st) ==
    IF f > Len(tree) THEN st
    ELSE LET counted == [st EXCEPT !.files_searched = @ + 1,
                                   !.read = Append(@, f)]
             after == scan_lines(tree[f].lines, f, 1, max_results, counted)
         IN  IF ~tree[f].readable THEN scan_files(tree, f + 1, max_results, counted)
             ELSE IF Len(after.matches) >= max_results THEN after
             ELSE scan_files(tree, f + 1, max_results, after)

\* matches, files_searched, and what the scan read
scan(tree, max_results) ==
    scan_files(tree, 1, max_results,
               [matches |-> <<>>, examined |-> <<>>, read |-> <<>>,
                files_searched |-> 0])

\* search_code with a pattern that compiles, on a tree
SearchTree(tree, max_results) ==
    /\ get_sandbox # <<>>
    /\ file_call' = <<[tool |-> "search_code", tree |-> tree,
                        max_results |-> max_results, text |-> "**Search pattern:**"]
                      @@ scan(tree, max_results)>>
    /\ UNCHANGED <<disk, sandbox_vars>>
    /\ UNCHANGED <<lineage_vars, sql_vars, dbt_vars>>

NextSearch ==
    \/ SetSandbox(RootPath)
    \/ \E tree \in Trees, max_results \in ResultLimits : SearchTree(tree, max_results)

SpecSearch == InitFiles /\ [][NextSearch]_vars

(***************************************************************************)
(* Claims about Part 1                                                     *)
(***************************************************************************)
Names(nodes) == [i \in 1..Len(nodes) |-> nodes[i].name]

Count(s, x) == Cardinality({i \in 1..Len(s) : s[i] = x})

\* the names one edge (a ref or a source) away from a model of S
Referenced(g, S) ==
    UNION {Range(g.models[m].refs) \cup Range(g.models[m].sources) :
           m \in S \cap DOMAIN g.models}

\* the names reachable from S by 1..k edges
RECURSIVE Within(_, _, _)
Within(g, S, k) ==
    IF k <= 0 \/ S = {} THEN {}
    ELSE Referenced(g, S) \cup Within(g, Referenced(g, S), k - 1)

\* C1: on the cycle A->B->C->A, the upstream of A with depth 10 is exactly
\* B and C: A is not in the list and no name occurs twice.
C1_CycleUpstreamIsBC ==
    (files = CycleProject /\ model_name = "A" /\ depth = CycleDepth /\ pc = "done")
        => /\ Range(Names(out["up"])) = {"B", "C"}
           /\ NoDup(Names(out["up"]))

\* C2: every node name occurs at most once in the upstream list and at
\* most once in the downstream list of a finished query.
C2_NamesOccurOnce ==
    pc = "done" => NoDup(Names(out["up"])) /\ NoDup(Names(out["down"]))

\* C3: every query terminates; on the way every recursive call runs with
\* its caller's depth minus one, a call that passes the guard has depth
\* left, and no model passes the guard twice in one walk.
C3_CallsWellFounded ==
    /\ \A k \in 1..Len(stack) :
          /\ k > 1 => stack[k].depth = stack[k - 1].depth - 1
          /\ stack[k].i >= 1 => stack[k].depth >= 1
    /\ \A m \in DOMAIN expanded : expanded[m] <= 1

C3_WalksTerminate ==
    /\ <>(pc \in {"done", "not_found"})
    /\ []C3_CallsWellFounded

\* a recursive call that meets a model already visited, with depth left
C3_CycleCutOff ==
    /\ pc \in WalkModes
    /\ stack # <<>>
    /\ Top.i = 0
    /\ Top.depth > 0
    /\ Top.model \in visited

\* C4: every name of the upstream list is within depth edges of the
\* queried model; the chain A->B->C->D->E with depth 2 gives B, C; and with
\* depth <= 0 both lists are empty.
C4_DepthBound ==
    /\ Range(Names(out["up"])) \subseteq Within(graph, {model_name}, depth)
    /\ (pc = "done" /\ depth <= 0) => out["up"] = <<>> /\ out["down"] = <<>>
    /\ (pc = "done" /\ files = ChainProject /\ model_name = "A" /\ depth = 2)
          => Names(out["up"]) = <<"B", "C">>

C4_ChainCutAtTwo ==
    /\ pc = "done"
    /\ files = ChainProject
    /\ model_name = "A"
    /\ depth = 2
    /\ Names(out["up"]) = <<"B", "C">>

\* C5: after the scan, X is in reverse[Y] if and only if Y is in
\* forward[X].refs.
C5_ReverseMatchesForward ==
    (pc = "scan" /\ scanned = files) =>
        \A X, Y \in DOMAIN graph.models \cup DOMAIN graph.reverse :
            X \in Range(Get(graph.reverse, Y, <<>>))
                <=> (X \in DOMAIN graph.models /\ Y \in Range(graph.models[X].refs))

\* two graphs with the same models, reference sets, source sets and paths,
\* and the same dependents (whatever their order) under every key
SameGraph(g, h) ==
    /\ DOMAIN g.models = DOMAIN h.models
    /\ \A m \in DOMAIN g.models :
          /\ Range(g.models[m].refs) = Range(h.models[m].refs)
          /\ Range(g.models[m].sources) = Range(h.models[m].sources)
          /\ g.models[m].path = h.models[m].path
    /\ DOMAIN g.reverse = DOMAIN h.reverse
    /\ \A k \in DOMAIN g.reverse : \A x \in Range(g.reverse[k]) \cup Range(h.reverse[k]) :
          Count(g.reverse[k], x) = Count(h.reverse[k], x)

\* C6: a second scan of the unchanged files gives the graph of the first,
\* whatever the order of enumeration of either.
C6_RescanSameGraph ==
    (prev_graphs # <<>> /\ scanned = files) => SameGraph(graph, prev_graphs[1])

(***************************************************************************)
(* Claims about Part 2                                                     *)
(***************************************************************************)
\* C7: for every SQL text that is analysed, whatever the numbers of tables,
\* joins, CTEs and subqueries found in it, the complexity score is an
\* integer from 1 to 10.
C7_ScoreBetween1And10 ==
    \A o \in Range(analysis) : o.ok => o.complexity_score \in 1..10

\* the CTE bodies without a parenthesised SELECT of their own
PlainBodies == {body \in CteBodies : ~Found(SubqueryPattern, body)}

\* C8: for a text WITH a AS (<select>), b AS (<select>) SELECT ..., the CTE
\* list is [a, b] in that order, and when the outer statement has no
\* parenthesised SELECT of its own the subquery count is 0.
C8_TwoCtesNotCounted ==
    \A o \in Range(analysis) :
        (/\ Len(sql_parts.ctes) = 2
         /\ Range(sql_parts.ctes) \subseteq PlainBodies
         /\ sql_parts.outer # ""
         /\ o.ok)
            => /\ o.ctes = <<"a", "b">>
               /\ ~Found(SubqueryPattern, sql_parts.outer) => o.subqueries = 0

\* C9: the scenario text yields the tables customers and orders, exactly
\* one INNER JOIN with right table customers and left table o (or orders,
\* or the unresolved sentinel), no CTE, no subquery and the score 4.
C9_ScenarioAnalysis ==
    \A o \in Range(analysis) :
        sql_content = ScenarioSql
            => /\ o.tables = {"customers", "orders"}
               /\ Len(o.joins) = 1
               /\ \A k \in 1..Len(o.joins) :
                     /\ o.joins[k].join_type = "INNER JOIN"
                     /\ o.joins[k].right_table = "customers"
                     /\ o.joins[k].left_table \in {"o", "orders", Unknown}
               /\ o.ctes = <<>>
               /\ o.subqueries = 0
               /\ o.complexity_score = 4

\* pattern groups 1 and 2 of the identifier pairs, one after the other
Identifiers(cond_parts) ==
    [k \in 1..(2 * Len(cond_parts)) |-> cond_parts[(k + 1) \div 2][IF k % 2 = 1 THEN 1 ELSE 2]]

\* id is, letter case aside, neither the right table nor its alias
Qualifies(id, right_table, alias) ==
    LowerStr(id) \notin {LowerStr(right_table), LowerStr(alias)}

\* C21: for every extracted join the left table is the first identifier of
\* the pairs of the condition, left side before right side, that is,
\* letter case aside, neither the right table name nor its alias, and it is
\* the sentinel "unknown" exactly when no identifier of any pair qualifies.
C21_LeftTableIsFirstQualifying ==
    \A o \in Range(analysis) :
        o.ok =>
            LET matches == FindAll(JoinPattern, sql_content)
            IN  /\ Len(o.joins) = Len(matches)
                /\ \A k \in 1..Len(matches) :
                     LET ids == Identifiers(FindAll(ConditionPattern,
                                                    Strip(matches[k][4], SpaceChars)))
                         right == o.joins[k].right_table
                         ok == {i \in 1..Len(ids) : Qualifies(ids[i], right, matches[k][3])}
                     IN  /\ o.joins[k].left_table = Unknown <=> ok = {}
                         /\ \A i \in ok :
                              (\A j \in ok : i <= j) => o.joins[k].left_table = ids[i]
                         /\ o.joins[k].left_table # Unknown =>
                              Qualifies(o.joins[k].left_table, right, matches[k][3])

\* the right side of a second pair was chosen in one join and no identifier
\* qualified in another
C21_LaterPairChosen ==
    \E o \in Range(analysis) :
        /\ o.ok
        /\ sql_parts.outer = "SELECT * FROM a JOIN b b2 ON b2.k = B.k AND b.k = c.k"
        /\ Len(o.joins) = 1
        /\ o.joins[1].right_table = "b"
        /\ o.joins[1].left_table = "c"

\* the counts may grow by up to this many
MaxGrowth == 2

\* n further list elements, all different; the score reads none of them
Further(n) == [k \in 1..n |-> SubSeq("+++++++++", 1, k)]

\* C22: for every text with at least one table the score is min(10, 1 +
\* min(tables - 1, 2) + min(joins, 3) + min(ctes, 2) + min(subqueries, 2) +
\* the number of UNION, CASE WHEN and window syntax present), and it does
\* not decrease when one of the four counts grows.
C22_ScoreIsCappedSum ==
    \A o \in Range(analysis) :
        (o.ok /\ o.tables # {}) =>
            LET flags == {r \in {UnionPattern, CaseWhenPattern, WindowPattern} :
                            Found(r, sql_content)}
                sum == 1 + Min(Cardinality(o.tables) - 1, 2) + Min(Len(o.joins), 3)
                         + Min(Len(o.ctes), 2) + Min(o.subqueries, 2) + Cardinality(flags)
            IN  /\ o.complexity_score = Min(10, sum)
                /\ \A n \in 1..MaxGrowth :
                     /\ calculate_complexity(sql_content, o.tables \cup Range(Further(n)),
                                             o.joins, o.ctes, o.subqueries) >= o.complexity_score
                     /\ calculate_complexity(sql_content, o.tables, o.joins \o Further(n),
                                             o.ctes, o.subqueries) >= o.complexity_score
                     /\ calculate_complexity(sql_content, o.tables, o.joins,
                                             o.ctes \o Further(n), o.subqueries) >= o.complexity_score
                     /\ calculate_complexity(sql_content, o.tables, o.joins, o.ctes,
                                             o.subqueries + n) >= o.complexity_score

\* four joins counted as three in a score below the ceiling
C22_JoinsCapped ==
    \E o \in Range(analysis) :
        /\ o.ok
        /\ Len(o.joins) = 4
        /\ Cardinality(o.tables) = 5
        /\ o.ctes = <<>>
        /\ o.complexity_score = 6

(***************************************************************************)
(* Claims about Part 3                                                     *)
(***************************************************************************)
\* C10: every lineage or model-parsing call of a caller that built an
\* analyzer is answered from the project root that this caller configured,
\* however the calls of the two callers interleave.
C10_AnsweredFromOwnRoot ==
    \A c \in Range(last_call) :
        (c.tool \in {"trace_lineage", "parse_dbt_model"} /\ crews[c.caller] # <<>>)
            => c.root = crews[c.caller]

\* the known model names that hold name as a substring, letter case aside
Matching(g, name) ==
    {m \in DOMAIN g.models : Contains(LowerStr(m), LowerStr(name))}

\* C13: once the scan is over a name that is no key of the graph gets the
\* not-found answer and nothing else: no walk has run, the answer lists at
\* most 5 suggestions, each a known model name that holds the requested
\* name as a case-insensitive substring, and it is the plain message
\* exactly when no known name holds it.
C13_NotFoundSuggests ==
    /\ (pc # "scan" /\ model_name \notin DOMAIN graph.models) => pc = "not_found"
    /\ pc = "not_found" =>
          /\ model_name \notin DOMAIN graph.models
          /\ \A mode \in WalkModes : out[mode] = <<>>
          /\ stack = <<>> /\ visited = {}
          /\ Len(out["not_found"]) = 1
          /\ Len(out["not_found"][1].suggestions) <= 5
          /\ Range(out["not_found"][1].suggestions) \subseteq Matching(graph, model_name)
          /\ (out["not_found"][1].message = "not found in project")
                <=> Matching(graph, model_name) = {}
          /\ (out["not_found"][1].suggestions = <<>>)
                <=> Matching(graph, model_name) = {}

\* six models match "A" and five of them are suggested
C13_FiveOfSix ==
    /\ pc = "not_found"
    /\ model_name = "A"
    /\ Cardinality(Matching(graph, model_name)) = 6
    /\ Len(out["not_found"][1].suggestions) = 5
    /\ out["not_found"][1].message = "not found. Did you mean:"

\* C18: a name that cannot be read does not abort the scan: the query does
\* not end with the error of the read, and once the scan is over every
\* other SQL file the scan does not leave out has its entry in the graph.
C18_UnreadableIsSkipped ==
    /\ pc # "error"
    /\ (pc # "scan" \/ scanned = files) =>
          \A f \in files : (can_read(f) /\ ~Excluded(f)) => f.stem \in DOMAIN graph.models

\* the path of a file below the root has a segment named target,
\* dbt_packages or logs
LeftOut(f) == Range(f.dir) \cap {"target", "dbt_packages", "logs"} # {}

\* C19: once the scan is over the graph has an entry named after every SQL
\* file under the root whose path has no segment named target, dbt_packages
\* or logs, and every entry, reference and reverse edge comes from such a
\* file.
C19_GraphCoversProject ==
    (scanned = files) =>
        /\ \A f \in files : ~LeftOut(f) => f.stem \in DOMAIN graph.models
        /\ \A m \in DOMAIN graph.models :
              \E f \in files :
                 /\ ~LeftOut(f) /\ f.stem = m
                 /\ graph.models[m].path = RelPath(f)
                 /\ Range(graph.models[m].refs) = Range(f.refs)
                 /\ Range(graph.models[m].sources) = Range(f.sources)
        /\ \A k \in DOMAIN graph.reverse : \A x \in Range(graph.reverse[k]) :
              \E f \in files : ~LeftOut(f) /\ f.stem = x /\ k \in Range(f.refs)

\* C20: when the query is answered the names on the lines of the upstream
\* tree are, in order, the names of the upstream list, likewise downstream,
\* and a line that shows a source has no line below it in the tree.
C20_TreesAgreeWithLists ==
    pc = "done" =>
        /\ out["up"] # <<>> => Names(out["fmt_up"]) = Names(out["up"])
        /\ out["down"] # <<>> => Names(out["fmt_down"]) = Names(out["down"])
        /\ \A i \in 1..(Len(out["fmt_up"]) - 1) :
              out["fmt_up"][i].node_type = "source" =>
                  Len(out["fmt_up"][i + 1].prefix) <= Len(out["fmt_up"][i].prefix)

\* the names in a list of nodes
NameSet(nodes) == {nodes[i].name : i \in 1..Len(nodes)}

\* C23: for a fixed graph, model and depth, the set of the names in the
\* upstream list and the set of the names in the downstream list are the
\* same for every order in which the references of a model and the
\* dependents of a model are iterated.
C23_NamesIndependentOfOrder ==
    pc = "done" =>
        \A g \in Scans(EmptyGraph, files) :
            SameGraph(g, graph) =>
                /\ NameSet(trace_upstream(g, model_name, depth)) = NameSet(out["up"])
                /\ NameSet(trace_downstream(g, model_name, depth)) = NameSet(out["down"])

(***************************************************************************)
(* Claims about Part 4                                                     *)
(***************************************************************************)
Below(p, root_path) == Len(p) >= Len(root_path) /\ SubSeq(p, 1, Len(root_path)) = root_path

\* no '..' segment and no link on the way: the path is canonical
Canonical(p) ==
    /\ \A i \in 1..Len(p) : p[i] # ".."
    /\ \A n \in 1..Len(p) : SubSeq(p, 1, n) \notin DOMAIN Links \/ n = Len(p)

\* the candidate resolves, and to a place that is neither the root nor below it
ResolvesOutside(path, root_path) ==
    LET r == realpath(<<>>, IF path.absolute THEN path.segments
                            ELSE root_path \o path.segments, 0, FALSE)
    IN  ~r.loop /\ ~Below(r.path, root_path)

StartsWith(text, prefix) ==
    Len(text) >= Len(prefix) /\ SubSeq(text, 1, Len(prefix)) = prefix

\* C11: every call of validate_path, whatever the candidate path, either
\* returns a canonical path that is the sandbox root or lies below it, or
\* raises SandboxError.
C11_InsideOrSandboxError ==
    \A c \in Range(file_call) :
        c.tool = "validate_path" =>
            \/ c.raised = None /\ Below(c.returned, c.root[1]) /\ c.returned \notin DOMAIN Links
            \/ c.raised = SandboxError

\* the tools that are given a path
PathTools ==
    {"parse_dbt_model", "read_file", "write_file", "edit_file", "list_directory",
     "get_project_structure"}

\* C12: a call of parse_dbt_model, read_file, write_file, edit_file,
\* list_directory or get_project_structure whose path resolves outside the
\* sandbox root ends with a failure result, has read, listed, written and
\* created nothing, and leaves the disk as it was.
C12_OutsideIsAbandoned ==
    [][\A c \in Range(file_call') :
          (c.tool \in PathTools /\ c.root # <<>> /\ ResolvesOutside(c.path, c.root[1])) =>
              /\ c.io = <<>>
              /\ disk' = disk
              /\ c.raised = None
              /\ StartsWith(c.text, "Error")]_vars

\* write_file was asked to overwrite a file that a link of the sandbox leads
\* out to, with the sandbox configured, and refused
C12_EscapeRefused ==
    \E c \in Range(file_call) :
        /\ c.tool = "write_file"
        /\ c.path = [absolute |-> FALSE, segments |-> <<"esc", "f">>]
        /\ sandbox = <<RootPath>>
        /\ c.text = "Error writing file"

\* the beginnings of the results of an operation that was carried out
Carried ==
    {"**File:**", "**Created:**", "**Updated:**", "**Edited:**", "**Directory:**",
     "**Project Structure**", "## dbt Model:", "**Search pattern:**", "## SQL Analysis",
     "## Lineage:"}

\* C16: every call of a tool ends with a text, never with an exception, and
\* the text of a call that was not carried out starts with an error message
\* ("Error ..." or, for a lineage lookup, "Model ... not found").
C16_FailuresAreTexts ==
    \A c \in Range(file_call) :
        c.tool \notin {"validate_path", "set_sandbox"} =>
            /\ c.raised = None
            /\ \/ c.text \in Carried
               \/ StartsWith(c.text, "Error")
               \/ c.tool = "trace_lineage" /\ StartsWith(c.text, "Model not found")

\* read_file was called before any sandbox was configured and said so
C16_UnconfiguredReported ==
    \E c \in Range(file_call) :
        /\ c.tool = "read_file"
        /\ sandbox = <<>>
        /\ c.text = "Error reading file"

\* the tools that call get_sandbox
SandboxTools ==
    PathTools \cup {"trace_lineage", "search_code"}

\* C26: while no set_sandbox has succeeded, every call of a tool that needs
\* the sandbox ends with an error text, has read, listed and written
\* nothing and leaves the disk as it was; a set_sandbox that succeeds makes
\* its validator the one get_sandbox returns, and no other step changes it.
C26_NothingBeforeSetSandbox ==
    [][\A c \in Range(file_call') :
          /\ (c.tool \in SandboxTools /\ sandbox = <<>>) =>
                /\ c.io = <<>>
                /\ c.raised = None
                /\ StartsWith(c.text, "Error")
                /\ disk' = disk
          /\ get_sandbox' = IF c.tool = "set_sandbox" /\ c.raised = None
                            THEN <<c.returned>> ELSE get_sandbox]_vars

\* write_file was called before any set_sandbox had succeeded (one had
\* failed) and wrote nothing
C26_WriteBeforeSetSandbox ==
    \E c \in Range(file_call) :
        /\ c.tool = "write_file"
        /\ c.root = <<>>
        /\ c.io = <<>>
        /\ c.text = "Error writing file"
        /\ disk = {}

\* a second set_sandbox succeeded and its root replaced the first
C26_SecondRootInForce ==
    \E c \in Range(file_call) :
        /\ c.tool = "set_sandbox"
        /\ c.root = <<RootPath>>
        /\ c.raised = None
        /\ sandbox = <<<<"out">>>>

\* the places a call's path stands for under the root the call ran against
Targets(c) ==
    IF c.root = <<>> THEN {}
    ELSE {v.path : v \in {w \in validate_path(c.root[1], c.path) : w.raised = None}}

\* C28: a write_file with overwrite false whose target is present answers
\* with an error, touches nothing and leaves the disk as it was; no call
\* writes a present target unless overwrite is true; and a call that wrote
\* reports "Created" exactly when the target was absent before the call.
C28_OverwriteNeedsFlag ==
    [][\A c \in Range(file_call') :
          c.tool = "write_file" =>
              /\ (~c.overwrite /\ \E p \in Targets(c) : exists(p)) =>
                    /\ StartsWith(c.text, "Error: File already exists")
                    /\ c.io = <<>>
                    /\ disk' = disk
              /\ \A k \in DOMAIN c.io :
                    (c.io[k].op = "write" /\ exists(c.io[k].path)) => c.overwrite
              /\ c.text \in {"**Created:**", "**Updated:**"} =>
                    \A p \in Targets(c) : (c.text = "**Created:**") <=> ~exists(p)]_vars

\* write_file without overwrite was called on a file that is there, through
\* a path with '..' in it, and refused
C28_PresentTargetRefused ==
    \E c \in Range(file_call) :
        /\ c.tool = "write_file"
        /\ ~c.overwrite
        /\ c.path.segments = <<"d", "..", "f">>
        /\ c.text = "Error: File already exists"
        /\ disk = {}

\* write_file with overwrite replaced a file and reported it as updated
C28_Updated ==
    \E c \in Range(file_call) :
        /\ c.tool = "write_file"
        /\ c.overwrite
        /\ c.text = "**Updated:**"
        /\ Entry4(<<"root", "d", "f">>, "file") \in disk

\* C27: a set_sandbox whose root does not exist or is not a directory
\* raises SandboxError and leaves the global sandbox as it was.
C27_BadRootRaisesSandboxError ==
    [][\A c \in Range(file_call') :
          (/\ c.tool = "set_sandbox"
           /\ LET r == realpath(<<>>, c.path.segments, 0, FALSE)
              IN  r.loop \/ ~is_dir(r.path))
              => c.raised = SandboxError /\ sandbox' = sandbox]_vars

(***************************************************************************)
(* Claims about Part 5                                                     *)
(***************************************************************************)
\* no document on disk has an entry named name
NoEntry(docs, name) == \A s \in DOMAIN docs : Named(docs[s], name) = <<>>

Assigned(key) ==
    CASE key = "materialized" -> "table"
      [] key = "tags" -> <<"finance", "daily">>
      [] key = "schema" -> "mart"
      [] key = "alias" -> "dim_orders"

\* C15: each of materialized, tags, schema and alias is in the extracted
\* config exactly when the first config block holds its own well-formed
\* assignment, with the value of that assignment, whatever the other keys
\* and the unrecognised keys of the block are; the block
\* config(materialized="table", tags=["finance","daily"]) gives
\* materialization table and tags finance, daily.
C15_KeysExtractedIndependently ==
    dbt_record # <<>> =>
        LET c == model_file.config
            r == dbt_record[1]
        IN  /\ \A key \in {"materialized", "tags", "schema", "alias"} :
                /\ key \in DOMAIN r.config <=> (c.block /\ c[key] = "well")
                /\ key \in DOMAIN r.config => r.config[key] = Assigned(key)
            /\ c = ScenarioConfig =>
                    r.materialization = "table" /\ r.tags = <<"finance", "daily">>

\* the first document in search order that exists, as a sequence of at most one
FirstFound(parent_name, docs) ==
    LET cands == Candidates(parent_name)
        there == {k \in 1..Len(cands) : cands[k] \in DOMAIN docs}
    IN  IF there = {} THEN <<>>
        ELSE <<docs[cands[CHOOSE k \in there : \A j \in there : k <= j]]>>

\* C17: when the first candidate document found in search order can be
\* loaded and has no entry named after the model, the record has no
\* description and no columns, whatever later candidates hold.
C17_FirstDocumentOnly ==
    dbt_record # <<>> =>
        LET first == FirstFound(ParentName(model_file), model_file.documents)
        IN  (first # <<>> /\ ~first[1].raises /\ Named(first[1], "orders") = <<>>) =>
                dbt_record[1].description = None /\ dbt_record[1].columns = <<>>

\* C24: every file that parse_dbt_model reads, the model file and each
\* companion document it opens, lies inside the sandbox root, also when the
\* root is a directory named models.
C24_ReadsInsideRoot ==
    dbt_record # <<>> =>
        \A k \in 1..Len(dbt_record[2]) :
            /\ Len(dbt_record[2][k]) > Len(model_file.root)
            /\ SubSeq(dbt_record[2][k], 1, Len(model_file.root)) = model_file.root

\* the entries named name that can be read to their end, over all documents
WholeEntries(docs, name) ==
    UNION {{e \in Range(Named(docs[s], name)) : Malformed \notin Range(e.columns)} :
           s \in DOMAIN docs}

\* C25: the description and the columns of the record come from one single
\* entry of one single companion document: nothing of an entry whose
\* reading failed part-way remains, and the columns of two documents are
\* never combined.
C25_OneWholeEntry ==
    dbt_record # <<>> =>
        \/ dbt_record[1].description = None /\ dbt_record[1].columns = <<>>
        \/ \E e \in WholeEntries(model_file.documents, "orders") :
              /\ dbt_record[1].description = e.description
              /\ dbt_record[1].columns = e.columns

(***************************************************************************)
(* Claims about Part 6                                                     *)
(***************************************************************************)
\* C29: the replacements_made that edit_file reports is the number of
\* occurrences replaced in what it wrote, which is every occurrence when
\* count is 0 and at most count otherwise; when the search text does not
\* occur, nothing is written and the answer is an error.
C29_ReportedIsReplaced ==
    \A c \in Range(file_call) :
        c.tool = "edit_file" =>
            IF contains(c.content, c.old_text)
            THEN /\ c.written # <<>>
                 /\ c.replacements_made = c.replaced
                 /\ IF c.count = 0 THEN c.replaced = c.occurrences
                    ELSE c.replaced <= c.count
            ELSE c.written = <<>> /\ StartsWith(c.text, "Error")

(***************************************************************************)
(* Claims about Part 7                                                     *)
(***************************************************************************)
\* C30: for a max_results of 0 or more (no list is shorter than that),
\* search_code returns at most max_results matches, and once that many are
\* found nothing more is read: the last line examined and the last file
\* read are those of the last match (none at all where no match was needed).
C30_AtMostMaxResults ==
    \A c \in Range(file_call) :
        (c.tool = "search_code" /\ c.max_results >= 0) =>
            /\ Len(c.matches) <= c.max_results
            /\ Len(c.matches) >= c.max_results =>
                  IF c.matches = <<>> THEN c.examined = <<>> /\ c.read = <<>>
                  ELSE /\ c.examined[Len(c.examined)] = c.matches[Len(c.matches)]
                       /\ c.read[Len(c.read)] = c.matches[Len(c.matches)][1]

====
